---- MODULE Spec2Model ----
(***************************************************************************)
(* The WEKO provider of waterbutler: a read-only remote repository (a tree *)
(* of indices holding items, each item holding files) composited with a    *)
(* writable draft overlay kept on a delegate storage provider.             *)
(*                                                                         *)
(* Strings are sequences of one-character strings, so that splitting a     *)
(* path, recognising the 'weko:' marker and joining names are computed.    *)
(***************************************************************************)
EXTENDS Integers, Sequences, FiniteSets, TLC

VARIABLES
    remote,     \* the remote repository: [tree, items] and the status of its endpoints
    delegate,   \* the delegate storage backend: a set of entries
    last,       \* the request in flight: what was asked, what it did, what it returned
    tasks       \* the coroutines of concurrent writes, each at one of its awaits

vars == <<remote, delegate, last, tasks>>

(* ------------------------------ bounds -------------------------------- *)

\* Longest input path of the resolver specification, in segments after the root.
MaxSegs == 3

\* Deepest draft sub-path of an input of the provider specification.
MaxDraftDepth == 2

\* Most entries the delegate backend holds.
MaxEntries == 4

\* Coroutines that run at once on the one provider.
NumTasks == 2

(* ------------------------------ strings ------------------------------- *)

None == [none |-> TRUE]

NoError == [exc |-> "none", code |-> 0, msg |-> ""]

MetadataError(msg, code) == [exc |-> "MetadataError", code |-> code, msg |-> msg]

ValueError(msg) == [exc |-> "ValueError", code |-> 0, msg |-> msg]

AttributeError(msg) == [exc |-> "AttributeError", code |-> 0, msg |-> msg]

DelegateError(msg, code) == [exc |-> "DelegateError", code |-> code, msg |-> msg]

SLASH == <<"/">>

ITEM_PREFIX == <<"w", "e", "k", "o", ":">>

ITEM_WORD == <<"i", "t", "e", "m">>

Digits == {"0", "1", "2", "3", "4", "5", "6", "7", "8", "9"}

Drop(s, n) == SubSeq(s, n + 1, Len(s))

StartsWith(s, p) == Len(s) >= Len(p) /\ SubSeq(s, 1, Len(p)) = p

EndsWith(s, p) == Len(s) >= Len(p) /\ SubSeq(s, Len(s) - Len(p) + 1, Len(s)) = p

RECURSIVE RStrip(_)
RStrip(s) ==
    IF s # <<>> /\ s[Len(s)] = "/" THEN RStrip(SubSeq(s, 1, Len(s) - 1)) ELSE s

\* str.split('/'): one more piece than there are slashes.
RECURSIVE SplitFrom(_, _)
SplitFrom(s, cur) ==
    IF s = <<>> THEN <<cur>>
    ELSE IF Head(s) = "/" THEN <<cur>> \o SplitFrom(Tail(s), <<>>)
    ELSE SplitFrom(Tail(s), Append(cur, Head(s)))

Split(s) == SplitFrom(s, <<>>)

\* '/'.join(names)
RECURSIVE Join(_)
Join(names) ==
    IF names = <<>> THEN <<>>
    ELSE IF Len(names) = 1 THEN names[1]
    ELSE names[1] \o SLASH \o Join(Tail(names))

(* --------------------------- metadata.py ------------------------------ *)

\* re.match('^weko:item([0-9]+)$', part): the digits, or <<>> for no match.
\* A parser that reads no segment as an item reference.
parse_no_item_file_id(part) == <<>>

parse_item_file_id(part) ==
    LET head == ITEM_PREFIX \o ITEM_WORD
        rest == Drop(part, Len(head))
    IN  IF StartsWith(part, head) /\ rest # <<>>
            /\ \A k \in 1..Len(rest) : rest[k] \in Digits
        THEN rest
        ELSE <<>>

(* ---------------------- the remote repository ------------------------- *)

File(filename, url) == [filename |-> filename, version_id |-> 1, download_url |-> url]

\* Every endpoint of the repository answers 200.
AllUp == [tree |-> 200, search |-> 200, record |-> 200]

\* The repository of the provider's tests, with the configured index two
\* levels below the top of the tree and beside an index outside its subtree.
RemoteA ==
    [tree |-> <<
        [id |-> <<"0">>, name |-> <<"z">>, children |-> <<
            [id |-> <<"1">>, name |-> <<"a">>, children |-> <<
                [id |-> <<"2">>, name |-> <<"r">>, children |-> <<
                    [id |-> <<"3">>, name |-> <<"s">>, children |-> <<>>] >>],
                [id |-> <<"4">>, name |-> <<"b">>, children |-> <<>>] >>] >>] >>,
     items |-> <<
        [id |-> <<"7">>, title |-> <<"i">>, index |-> <<"2">>,
         files |-> <<File(<<"f">>, <<"u", "7", "f">>)>>],
        [id |-> <<"8">>, title |-> <<"j">>, index |-> <<"3">>,
         files |-> <<File(<<"f">>, <<"u", "8", "f">>), File(<<"g">>, <<"u", "8", "g">>)>>],
        [id |-> <<"6">>, title |-> <<"k">>, index |-> <<"4">>,
         files |-> <<File(<<"f">>, <<"u", "6", "f">>)>>] >>,
     status |-> AllUp]

\* A repository whose names collide: under index 3 the title "d" names both a
\* child index and an item, and item 9 repeats a file name.
RemoteB ==
    [tree |-> <<
        [id |-> <<"2">>, name |-> <<"r">>, children |-> <<
            [id |-> <<"3">>, name |-> <<"s">>, children |-> <<
                [id |-> <<"5">>, name |-> <<"d">>, children |-> <<>>] >>] >>] >>,
     items |-> <<
        [id |-> <<"7">>, title |-> <<"i">>, index |-> <<"2">>,
         files |-> <<File(<<"f">>, <<"u", "7", "f">>), File(<<"g">>, <<"u", "7", "g">>)>>],
        [id |-> <<"9">>, title |-> <<"d">>, index |-> <<"3">>,
         files |-> <<File(<<"f">>, <<"u", "9", "f">>), File(<<"f">>, <<"u", "9", "x">>)>>] >>,
     status |-> AllUp]

\* An index with more items than a page of the search holds.
RemoteC ==
    [tree |-> <<
        [id |-> <<"2">>, name |-> <<"r">>, children |-> <<
            [id |-> <<"3">>, name |-> <<"s">>, children |-> <<>>] >>] >>,
     items |-> <<
        [id |-> <<"7">>, title |-> <<"i">>, index |-> <<"2">>,
         files |-> <<File(<<"f">>, <<"u", "7", "f">>)>>],
        [id |-> <<"8">>, title |-> <<"d">>, index |-> <<"3">>,
         files |-> <<File(<<"f">>, <<"u", "8", "f">>)>>],
        [id |-> <<"9">>, title |-> <<"e">>, index |-> <<"3">>,
         files |-> <<File(<<"f">>, <<"u", "9", "f">>)>>],
        [id |-> <<"5">>, title |-> <<"j">>, index |-> <<"3">>,
         files |-> <<File(<<"f">>, <<"u", "5", "f">>), File(<<"g">>, <<"u", "5", "g">>)>>] >>,
     status |-> AllUp]

Remotes == {RemoteA, RemoteB}

\* The endpoints of the repository the client requests.
Endpoints == {"tree", "search", "record"}

\* self.index_id = settings['index_id']: the configured root index.
self_index_id == <<"2">>

(* ------------------------- awaited steps ------------------------------ *)

\* What an awaited step gives back: a value or an error, the delegate's
\* entries after it and the calls issued so far.
Out(val, err, d, log) == [val |-> val, err |-> err, d |-> d, log |-> log]

Start(d) == Out(None, NoError, d, <<>>)

Set(c, val) == [c EXCEPT !.val = val]

Fail(c, err) == [c EXCEPT !.val = None, !.err = err]

Call(c, call) == [c EXCEPT !.log = Append(@, call)]

\* An exception ends the operation: the steps after it do not run.
Bind(c, F(_)) == IF c.err # NoError THEN c ELSE F(c)

RemoteCall(op, arg) == [to |-> "remote", op |-> op, arg |-> arg]

DelegateCall(op, arg) == [to |-> "delegate", op |-> op, arg |-> arg]

\* A fetch of a url that goes through the delegate.
DelegateFetch(url) == DelegateCall("download", url)

UrlCall(url) == [to |-> "url", op |-> "GET", arg |-> url]

StreamCall(name) == [to |-> "stream", op |-> "add_writer", arg |-> name]

(* ----------------------------- client.py ------------------------------ *)

Index(desc, parent) ==
    [identifier |-> desc.id, title |-> desc.name, raw |-> desc, parent |-> parent]

\* An index that shows no children.
no_children(index) == <<>>

children(index) ==
    [k \in 1..Len(index.raw.children) |-> Index(index.raw.children[k], index)]

RECURSIVE flatten_indices(_)
flatten_indices(indices) ==
    IF indices = <<>> THEN <<>>
    ELSE <<Head(indices)>> \o flatten_indices(children(Head(indices)))
            \o flatten_indices(Tail(indices))

\* A client that requests once more before it raises the error.
Retried200(asked, op) ==
    IF remote.status[op] # 200
    THEN Fail(Call(asked, asked.log[Len(asked.log)]),
              MetadataError("remote", remote.status[op]))
    ELSE asked

\* The response to a request: a status other than 200 raises MetadataError
\* with that status.
Expect200(asked, op) ==
    IF remote.status[op] # 200
    THEN Fail(asked, MetadataError("remote", remote.status[op]))
    ELSE asked

\* Client._get(path)
client_get(c, op, arg) == Expect200(Call(c, RemoteCall(op, arg)), op)

\* A client that answers from a tree it holds, without a request.
cached_indices(c) ==
    Set(c, [k \in 1..Len(remote.tree) |-> Index(remote.tree[k], None)])

get_indices(c) ==
    LET Parsed(root) ==
            Set(root, [k \in 1..Len(remote.tree) |-> Index(remote.tree[k], None)])
    IN  Bind(client_get(c, "tree", <<>>), Parsed)

get_index_by_id(c, id) ==
    LET IsIt(i) == i.identifier = id
        Pick(fetched) ==
            IF SelectSeq(flatten_indices(fetched.val), IsIt) = <<>>
            THEN Fail(fetched, ValueError("No index for id"))
            ELSE Set(fetched, SelectSeq(flatten_indices(fetched.val), IsIt)[1])
    IN  Bind(get_indices(c), Pick)

\* get_items(self, page=1, size=1000): the page a call without arguments
\* asks for, and the size of a page.
DEFAULT_PAGE == 1

DefaultSize == 2

\* 'api/index/?page={page}&size={size}&sort=-createdate&q={identifier}'
SearchQuery(index_id, page, size) == [q |-> index_id, page |-> page, size |-> size]

\* The hits the search endpoint returns for a page.
Page(hits, page, size) ==
    SubSeq(hits, (page - 1) * size + 1,
           IF page * size < Len(hits) THEN page * size ELSE Len(hits))

\* A search that follows the pages to the last hit.
get_items_of_all_pages(c, index) ==
    LET InIndex(it) == it.index = index.identifier
        Parsed(root) == Set(root, SelectSeq(remote.items, InIndex))
        Following(first) ==
            client_get(first, "search",
                       SearchQuery(index.identifier, DEFAULT_PAGE + 1, DefaultSize))
    IN  Bind(Bind(client_get(c, "search",
                             SearchQuery(index.identifier, DEFAULT_PAGE, DefaultSize)),
                  Following),
             Parsed)

get_items(c, index) ==
    LET InIndex(it) == it.index = index.identifier
        Parsed(root) ==
            Set(root, Page(SelectSeq(remote.items, InIndex), DEFAULT_PAGE, DefaultSize))
    IN  Bind(client_get(c, "search",
                        SearchQuery(index.identifier, DEFAULT_PAGE, DefaultSize)),
             Parsed)

get_item_by_id(c, item_id) ==
    LET IsIt(it) == it.id = item_id
        Pick(asked) ==
            IF SelectSeq(remote.items, IsIt) = <<>>
            THEN Fail(asked, MetadataError("records", 404))
            ELSE Set(asked, SelectSeq(remote.items, IsIt)[1])
    IN  Bind(client_get(c, "record", item_id), Pick)

(* ------------------------ provider.py: paths -------------------------- *)

\* A path part: the segment's text and its identifier triple
\* <<kind, backend id, display name>>, or <<>> for no identifier.
WEKOPathPart(value, id) == [value |-> value, id |-> id]

part_is_index(part) == part.id # <<>> /\ part.id[1] = "index"

part_is_item(part) == part.id # <<>> /\ part.id[1] = "item"

part_is_item_file(part) == part.id # <<>> /\ part.id[1] = "item_file"

\* A part without an identifier triple is the only draft.
part_is_unidentified(part) == part.id = <<>>

part_is_draft_file(part) == part.id = <<>> \/ part.id[1] = "draft_file"

identifier_value(part) == IF part.id = <<>> THEN <<>> ELSE part.id[2]

materialized(part) == IF part.id = <<>> THEN part.value ELSE part.id[3]

Max(a, b) == IF a >= b THEN a ELSE b

\* WEKOPath(path, _ids=ids): the parts pair the split path with the ids, the
\* shorter of the two padded; a path ending in '/' is a directory.
WEKOPath(path, ids) ==
    LET segs == Split(RStrip(path))
    IN  [parts |-> [k \in 1..Max(Len(segs), Len(ids)) |->
                        WEKOPathPart(IF k <= Len(segs) THEN segs[k] ELSE <<>>,
                                     IF k <= Len(ids) THEN ids[k] ELSE <<>>)],
         is_dir |-> EndsWith(path, SLASH)]

ids_of(parts) == [k \in 1..Len(parts) |-> parts[k].id]

materialized_names(parts) == [k \in 1..Len(parts) |-> materialized(parts[k])]

path_materialized_path(path) ==
    Join(materialized_names(path.parts)) \o (IF path.is_dir THEN SLASH ELSE <<>>)

LastPart(path) == path.parts[Len(path.parts)]

is_root(path) == Len(path.parts) = 1

is_index(path) == part_is_index(LastPart(path))

is_item(path) == part_is_item(LastPart(path))

is_item_file(path) == part_is_item_file(LastPart(path))

is_draft_file(path) == part_is_draft_file(LastPart(path))

as_file(path) == WEKOPath(Join(materialized_names(path.parts)), ids_of(path.parts))

\* A split at the last draft part instead of the first.
split_at_last_draft(path) ==
    LET pos_ == {i \in 2..Len(path.parts) : part_is_draft_file(path.parts[i])}
    IN  IF pos_ = {} THEN <<path, None>>
        ELSE LET pos == CHOOSE i \in pos_ : \A j \in pos_ : j <= i
                 parent_parts == SubSeq(path.parts, 1, pos - 1)
                 child_parts == <<path.parts[1]>> \o SubSeq(path.parts, pos, Len(path.parts))
             IN  << WEKOPath(Join(materialized_names(parent_parts)) \o SLASH,
                             ids_of(parent_parts)),
                    WEKOPath(Join(materialized_names(child_parts))
                                \o (IF path.is_dir THEN SLASH ELSE <<>>),
                             ids_of(child_parts)) >>

\* <<parent path, child path>>; the child is None when no part after the first
\* is a draft file.
split_draft_file_path(path) ==
    LET pos_ == {i \in 2..Len(path.parts) : part_is_draft_file(path.parts[i])}
    IN  IF pos_ = {} THEN <<path, None>>
        ELSE LET pos == CHOOSE i \in pos_ : \A j \in pos_ : i <= j
                 parent_parts == SubSeq(path.parts, 1, pos - 1)
                 child_parts == <<path.parts[1]>> \o SubSeq(path.parts, pos, Len(path.parts))
             IN  << WEKOPath(Join(materialized_names(parent_parts)) \o SLASH,
                             ids_of(parent_parts)),
                    WEKOPath(Join(materialized_names(child_parts))
                                \o (IF path.is_dir THEN SLASH ELSE <<>>),
                             ids_of(child_parts)) >>

\* <<parent path, last part>>; the last part is None for a one-part path.
split_path(path) ==
    IF Len(path.parts) = 1 THEN <<path, None>>
    ELSE LET parent_parts == SubSeq(path.parts, 1, Len(path.parts) - 1)
         IN  << WEKOPath(Join(materialized_names(parent_parts)) \o SLASH,
                         ids_of(parent_parts)),
                LastPart(path) >>

(* ------------------- provider.py: validate_path ----------------------- *)

\* The loop's variables.
ResolveStart == [ids |-> <<>>, index |-> None, item |-> None, file |-> None]

\* A resolver that never remembers an item.
no_item_seen(st) == FALSE

\* A resolver that never remembers an item file.
no_file_seen(st) == FALSE

\* `item is not None`: an item was resolved earlier on the path.
under_item(st) == st.item # None

\* `file is not None`: an item file was resolved earlier on the path.
under_item_file(st) == st.file # None

\* One iteration of the loop over the parts; i counts from 1 and acc.val
\* holds the loop's variables.
validate_part(part, i, acc) ==
    LET st == acc.val
        item_id == parse_item_file_id(part)
        Titled(x) == x.title = part
        Named(f) == f.filename = part
        DefaultIndex ==
            IF st.index = None THEN get_index_by_id(acc, self_index_id)
            ELSE Set(acc, st.index)
        AddIndex(r) ==
            Set(r, [st EXCEPT !.index = r.val,
                              !.ids = Append(@, <<"index", r.val.identifier, r.val.title>>)])
        MarkedItem(r) ==
            LET AddItem(g) ==
                    Set(g, [st EXCEPT !.index = r.val, !.item = g.val,
                                      !.ids = Append(@, <<"item", g.val.id, g.val.title>>)])
            IN  Bind(get_item_by_id(r, item_id), AddItem)
        Ordinary(r) ==
            LET index_cands == SelectSeq(children(r.val), Titled)
                ByTitle(g) ==
                    LET item_cands == SelectSeq(g.val, Titled)
                    IN  IF item_cands # <<>>
                        THEN Set(g, [st EXCEPT !.index = r.val, !.item = item_cands[1],
                                        !.ids = Append(@, <<"item", item_cands[1].id,
                                                            item_cands[1].title>>)])
                        ELSE Set(g, [st EXCEPT !.index = r.val,
                                        !.ids = Append(@, <<"draft_file", part, part>>)])
            IN  IF index_cands # <<>>
                THEN Set(r, [st EXCEPT !.index = index_cands[1],
                                !.ids = Append(@, <<"index", index_cands[1].identifier,
                                                    index_cands[1].title>>)])
                ELSE Bind(get_items(r, r.val), ByTitle)
        file_cands == SelectSeq(st.item.files, Named)
    IN  IF StartsWith(part, ITEM_PREFIX)
        THEN IF item_id = <<>>
             THEN IF under_item(st)
                  THEN Fail(acc, MetadataError("Invalid path: No indexes under item", 400))
                  ELSE Bind(get_index_by_id(acc, Drop(part, Len(ITEM_PREFIX))), AddIndex)
             ELSE IF under_item(st)
                  THEN Fail(acc, MetadataError("Invalid path: No item under item", 400))
                  ELSE Bind(DefaultIndex, MarkedItem)
        ELSE IF under_item_file(st)
        THEN Fail(acc, MetadataError("Invalid path: No path segment below the item file", 400))
        ELSE IF part = <<>> /\ i = 1
        THEN Set(acc, [st EXCEPT !.ids = Append(@, <<"root", part, part>>)])
        ELSE IF under_item(st)
        THEN IF file_cands = <<>>
             THEN Fail(acc, MetadataError("File not found", 404))
             ELSE Set(acc, [st EXCEPT !.file = file_cands[1],
                               !.ids = Append(@, <<"item_file", file_cands[1].filename,
                                                   file_cands[1].filename>>)])
        ELSE Bind(DefaultIndex, Ordinary)

\* A loop that stops before the last part.
RECURSIVE validate_parts_but_last(_, _, _)
validate_parts_but_last(parts, i, acc) ==
    IF i >= Len(parts) \/ acc.err # NoError THEN acc
    ELSE validate_parts_but_last(parts, i + 1, validate_part(parts[i], i, acc))

RECURSIVE validate_parts(_, _, _)
validate_parts(parts, i, acc) ==
    IF i > Len(parts) \/ acc.err # NoError THEN acc
    ELSE validate_parts(parts, i + 1, validate_part(parts[i], i, acc))

\* validate_path(path): the resolved WEKOPath, or the error raised on the way.
validate_path(path) ==
    LET Resolved(acc) == Set(acc, WEKOPath(path, acc.val.ids))
    IN  Bind(validate_parts(Split(RStrip(path)), 1, Set(Start({}), ResolveStart)), Resolved)

(* ----------------------- the delegate backend -------------------------- *)

\* An entry of the delegate: a native id, the id of its parent folder (<<>>
\* for the root), its name and its kind. Entries are addressed by native
\* paths: '/' is the root, '/<id>/' a folder, '/<id>' a file and
\* '/<parent id>/<name>' a name inside a folder.
Entry(id, parent, name, kind) == [id |-> id, parent |-> parent, name |-> name, kind |-> kind]

\* The native id the delegate gives a new entry: an opaque token, here drawn
\* from the place the entry is created at, and never equal to a name.
NewId(parent, name) == (IF parent = <<>> THEN <<>> ELSE parent) \o <<"#">> \o name

RECURSIVE entry_names(_, _)
entry_names(d, e) ==
    IF e.parent = <<>> THEN <<e.name>>
    ELSE Append(entry_names(d, CHOOSE p \in d : p.id = e.parent), e.name)

\* The metadata the delegate returns for an entry.
EntryMetadata(d, e) ==
    [kind |-> e.kind,
     name |-> e.name,
     id |-> e.id,
     path |-> SLASH \o e.id \o (IF e.kind = "folder" THEN SLASH ELSE <<>>),
     materialized_path |-> SLASH \o Join(entry_names(d, e))
                               \o (IF e.kind = "folder" THEN SLASH ELSE <<>>)]

\* A folder's listing, in the delegate's own (fixed) order.
RECURSIVE SeqOf(_)
SeqOf(es) ==
    IF es = {} THEN <<>>
    ELSE LET first == CHOOSE e \in es : TRUE
         IN  <<first>> \o SeqOf(es \ {first})

Listing(d, parent) ==
    LET Metadata(es) == [k \in 1..Len(es) |-> EntryMetadata(d, es[k])]
    IN  [kind |-> "list", entries |-> Metadata(SeqOf({e \in d : e.parent = parent}))]

\* The entry a native path addresses: the root, an entry, or None.
RootEntry == Entry(<<>>, <<>>, <<>>, "folder")

DResolve(d, dpath) ==
    LET segs == Split(RStrip(dpath)) IN
    IF Len(segs) = 1 THEN RootEntry
    ELSE IF Len(segs) = 2
    THEN IF \E e \in d : e.id = segs[2] THEN CHOOSE e \in d : e.id = segs[2]
         ELSE IF \E e \in d : e.parent = <<>> /\ e.name = segs[2]
         THEN CHOOSE e \in d : e.parent = <<>> /\ e.name = segs[2]
         ELSE None
    ELSE IF Len(segs) = 3 /\ \E e \in d : e.parent = segs[2] /\ e.name = segs[3]
    THEN CHOOSE e \in d : e.parent = segs[2] /\ e.name = segs[3]
    ELSE None

\* The folder a new name of a native path goes into, or None.
DParent(d, dpath) ==
    LET segs == Split(RStrip(dpath)) IN
    IF Len(segs) = 2 THEN RootEntry
    ELSE IF Len(segs) = 3 /\ \E e \in d : e.id = segs[2] /\ e.kind = "folder"
    THEN CHOOSE e \in d : e.id = segs[2]
    ELSE None

DName(dpath) == LET segs == Split(RStrip(dpath)) IN segs[Len(segs)]

\* The delegate's operations take the path that its validate_path returned,
\* held in c.val.
D_validate_path(c, dpath) == Set(Call(c, DelegateCall("validate_path", dpath)), dpath)

D_metadata(c) ==
    LET Answer(q, e) ==
            IF e = None THEN Fail(q, DelegateError("not found", 404))
            ELSE IF e.kind = "folder" THEN Set(q, Listing(q.d, e.id))
            ELSE Set(q, EntryMetadata(q.d, e))
    IN  Answer(Call(c, DelegateCall("metadata", c.val)), DResolve(c.d, c.val))

Created(q, e) == [q EXCEPT !.d = @ \cup {e}, !.val = EntryMetadata(q.d \cup {e}, e)]

D_create_folder(c) ==
    LET Answer(q, parent) ==
            IF DResolve(q.d, c.val) # None THEN Fail(q, DelegateError("exists", 409))
            ELSE IF parent = None THEN Fail(q, DelegateError("not found", 404))
            ELSE Created(q, Entry(NewId(parent.id, DName(c.val)), parent.id, DName(c.val), "folder"))
    IN  Answer(Call(c, DelegateCall("create_folder", c.val)), DParent(c.d, c.val))

\* The value is <<metadata, created>>.
D_upload(c) ==
    LET Stored(q) == Set(q, <<q.val, TRUE>>)
        Answer(q, old, parent) ==
            IF old # None
            THEN IF old.kind = "file" THEN Set(q, <<EntryMetadata(q.d, old), FALSE>>)
                 ELSE Fail(q, DelegateError("is a folder", 409))
            ELSE IF parent = None THEN Fail(q, DelegateError("not found", 404))
            ELSE Stored(Created(q, Entry(NewId(parent.id, DName(c.val)), parent.id, DName(c.val), "file")))
    IN  Answer(Call(c, DelegateCall("upload", c.val)), DResolve(c.d, c.val),
               DParent(c.d, c.val))

RECURSIVE Under(_, _)
Under(d, roots) ==
    LET more == {e \in d : \E r \in roots : e.parent = r.id} \ roots
    IN  IF more = {} THEN roots ELSE Under(d, roots \cup more)

D_delete(c) ==
    LET Answer(q, e) ==
            IF e = None \/ e = RootEntry THEN Fail(q, DelegateError("not found", 404))
            ELSE [q EXCEPT !.d = @ \ Under(@, {e}), !.val = EntryMetadata(q.d, e)]
    IN  Answer(Call(c, DelegateCall("delete", c.val)), DResolve(c.d, c.val))

D_download(c) ==
    LET Answer(q, e) ==
            IF e = None \/ e = RootEntry THEN Fail(q, DelegateError("not found", 404))
            ELSE Set(q, [bytes_of |-> e.id])
    IN  Answer(Call(c, DelegateCall("download", c.val)), DResolve(c.d, c.val))

(* ---------------------- metadata.py: projections ----------------------- *)

get_item_file_id(item) == ITEM_WORD \o item.id

get_parent_for_non_root_index(root_index_id, target) ==
    IF target = None THEN None
    ELSE IF target.identifier = root_index_id THEN None
    ELSE target.parent

\* The loop that prepends the ancestors below the configured root.
RECURSIVE index_to_path_parts_loop(_, _, _)
index_to_path_parts_loop(root_index_id, parts, target) ==
    IF target # None /\ get_parent_for_non_root_index(root_index_id, target) # None
    THEN index_to_path_parts_loop(root_index_id, <<target>> \o parts,
                                  get_parent_for_non_root_index(root_index_id, target))
    ELSE parts

index_to_path_parts(root_index_id, target) ==
    IF get_parent_for_non_root_index(root_index_id, target) = None THEN <<>>
    ELSE index_to_path_parts_loop(root_index_id, <<target>>,
                                  get_parent_for_non_root_index(root_index_id, target))

WithSlash(r) == IF Len(r) = 0 THEN r ELSE r \o SLASH

index_to_path(root_index_id, target) ==
    LET Ids(parts) == [k \in 1..Len(parts) |-> ITEM_PREFIX \o parts[k].identifier]
    IN  WithSlash(Join(Ids(index_to_path_parts(root_index_id, target))))

\* A projection that places every index at the root.
flat_materialized_path(root_index_id, target) == <<>>

index_to_materialized_path(root_index_id, target) ==
    LET Titles(parts) == [k \in 1..Len(parts) |-> parts[k].title]
    IN  WithSlash(Join(Titles(index_to_path_parts(root_index_id, target))))

WEKOFileMetadata(root_index_id, file, item, index) ==
    [weko |-> "file",
     kind |-> "file",
     name |-> file.filename,
     identifier |-> file.filename,
     itemId |-> get_item_file_id(item),
     index_identifier |-> index.identifier,
     path |-> SLASH \o index_to_path(root_index_id, index) \o ITEM_PREFIX
                 \o get_item_file_id(item) \o SLASH \o file.filename,
     materialized_path |-> SLASH \o index_to_materialized_path(root_index_id, index)
                 \o item.title \o SLASH \o file.filename,
     etag |-> file.version_id]

WEKOItemMetadata(root_index_id, raw, index) ==
    [weko |-> "item",
     kind |-> "folder",
     name |-> raw.title,
     identifier |-> ITEM_PREFIX \o get_item_file_id(raw),
     item_identifier |-> raw.id,
     fileId |-> get_item_file_id(raw),
     index_identifier |-> index.identifier,
     path |-> SLASH \o index_to_path(root_index_id, index) \o ITEM_PREFIX
                 \o get_item_file_id(raw) \o SLASH,
     materialized_path |-> SLASH \o index_to_materialized_path(root_index_id, index)
                 \o raw.title \o SLASH]

WEKOIndexMetadata(root_index_id, raw) ==
    [weko |-> "index",
     kind |-> "folder",
     name |-> raw.title,
     identifier |-> ITEM_PREFIX \o raw.identifier,
     index_identifier |-> raw.identifier,
     indexId |-> raw.identifier,
     path |-> SLASH \o index_to_path(root_index_id, raw),
     materialized_path |-> SLASH \o index_to_materialized_path(root_index_id, raw)]

\* A draft projection keeps the delegate's entry and the index folder; its
\* paths are derived when they are read (draft_relative_path).
BaseWEKODraftMetadata(kind, root_index_id, file, index_folder, index) ==
    [weko |-> "draft",
     kind |-> kind,
     name |-> file.name,
     index |-> index.identifier,
     index_path |-> index_to_path(root_index_id, index),
     index_materialized_path |-> index_to_materialized_path(root_index_id, index),
     index_folder |-> index_folder,
     raw |-> file,
     source |-> [provider |-> "osfstorage", path |-> file.path,
                 materialized_path |-> file.materialized_path]]

WEKODraftFolderMetadata(root_index_id, file, index_folder, index) ==
    BaseWEKODraftMetadata("folder", root_index_id, file, index_folder, index)

WEKODraftFileMetadata(root_index_id, file, index_folder, index) ==
    BaseWEKODraftMetadata("file", root_index_id, file, index_folder, index)

\* A derivation that hands back, unchanged, a path that does not start with
\* the index folder's.
lenient_relative_path(m) ==
    LET base_path == m.index_folder.materialized_path
        item_path == m.raw.materialized_path
    IN  IF StartsWith(item_path, base_path)
        THEN [val |-> Drop(item_path, Len(base_path)), err |-> NoError]
        ELSE [val |-> item_path, err |-> NoError]

\* A derivation without the folder variant's override.
base_relative_path(m) ==
    LET base_path == m.index_folder.materialized_path
        item_path == m.raw.materialized_path
    IN  IF ~StartsWith(item_path, base_path)
        THEN [val |-> <<>>, err |-> ValueError("Unexpected path")]
        ELSE [val |-> Drop(item_path, Len(base_path)), err |-> NoError]

\* _relative_path: [val, err]; the folder variant ends with '/'.
draft_relative_path(m) ==
    LET base_path == m.index_folder.materialized_path
        item_path == m.raw.materialized_path
        r == Drop(item_path, Len(base_path))
    IN  IF ~StartsWith(item_path, base_path)
        THEN [val |-> <<>>, err |-> ValueError("Unexpected path")]
        ELSE IF m.kind = "folder" /\ ~EndsWith(r, SLASH)
        THEN [val |-> r \o SLASH, err |-> NoError]
        ELSE [val |-> r, err |-> NoError]

\* path and materialized_path of a draft projection: [val, err].
draft_projected_path(m) ==
    IF draft_relative_path(m).err # NoError THEN draft_relative_path(m)
    ELSE [val |-> SLASH \o m.index_path \o draft_relative_path(m).val, err |-> NoError]

draft_materialized_path(m) ==
    IF draft_relative_path(m).err # NoError THEN draft_relative_path(m)
    ELSE [val |-> SLASH \o m.index_materialized_path \o draft_relative_path(m).val,
          err |-> NoError]

(* ------------------ provider.py: the draft overlay --------------------- *)

\* A marker folder under another name.
OTHER_FOLDER_NAME == <<".", "o", "s", "f">>

\* f'.{self.NAME}'
DRAFT_FOLDER_NAME == <<".", "w", "e", "k", "o">>

\* A lookup that finds no entry in any listing.
NoneNamed(listing, name) == None

\* A lookup that takes the first entry of a listing, whatever its name.
FirstListed(listing, name) ==
    IF listing.entries = <<>> THEN None ELSE listing.entries[1]

\* The first entry of a listing with the name, or None.
FirstNamed(listing, name) ==
    LET Named(child) == child.name = name
        found == SelectSeq(listing.entries, Named)
    IN  IF found = <<>> THEN None ELSE found[1]

\* A default that creates the skeleton on every call.
creates_always == TRUE

\* get_index_folder(index_id, creates=False): what a call that does not pass
\* `creates` gets.
creates_default == FALSE

get_draft_folder(c, creates) ==
    LET Pick(m) ==
            IF FirstNamed(m.val, DRAFT_FOLDER_NAME) # None
            THEN Set(m, FirstNamed(m.val, DRAFT_FOLDER_NAME))
            ELSE IF ~creates THEN Set(m, None)
            ELSE D_create_folder(D_validate_path(m, SLASH \o DRAFT_FOLDER_NAME \o SLASH))
    IN  Bind(D_metadata(D_validate_path(c, SLASH)), Pick)

get_index_folder(c, index_id, creates) ==
    LET Inside(draft_folder) ==
            LET Pick(m) ==
                    IF FirstNamed(m.val, index_id) # None
                    THEN Set(m, FirstNamed(m.val, index_id))
                    ELSE IF ~creates THEN Set(m, None)
                    ELSE D_create_folder(D_validate_path(m,
                             draft_folder.val.path \o index_id \o SLASH))
            IN  IF draft_folder.val = None THEN draft_folder
                ELSE Bind(D_metadata(D_validate_path(draft_folder, draft_folder.val.path)),
                          Pick)
    IN  Bind(get_draft_folder(c, creates), Inside)

\* A resolution that asks for the listing of the index folder twice.
RECURSIVE relisting_draft_file_metadata(_, _, _)
relisting_draft_file_metadata(c, index_folder, draft_path) ==
    LET Match(pm, last_part) ==
            IF pm.val.kind = "file" THEN Fail(pm, MetadataError("invalid", 400))
            ELSE IF FirstNamed(pm.val, materialized(last_part)) = None
            THEN Fail(pm, MetadataError("File not found", 404))
            ELSE IF ~draft_path.is_dir
            THEN Set(pm, FirstNamed(pm.val, materialized(last_part)))
            ELSE D_metadata(D_validate_path(pm,
                     FirstNamed(pm.val, materialized(last_part)).path))
        Descend(pm) == Match(pm, split_path(draft_path)[2])
        Again(pm) == D_metadata(D_validate_path(pm, index_folder.path))
    IN  IF split_path(draft_path)[2] = None
        THEN Bind(D_metadata(D_validate_path(c, index_folder.path)), Again)
        ELSE Bind(relisting_draft_file_metadata(c, index_folder, split_path(draft_path)[1]),
                  Descend)

RECURSIVE get_draft_file_metadata(_, _, _)
get_draft_file_metadata(c, index_folder, draft_path) ==
    LET Match(pm, last_part) ==
            IF pm.val.kind = "file" THEN Fail(pm, MetadataError("invalid", 400))
            ELSE IF FirstNamed(pm.val, materialized(last_part)) = None
            THEN Fail(pm, MetadataError("File not found", 404))
            ELSE IF ~draft_path.is_dir
            THEN Set(pm, FirstNamed(pm.val, materialized(last_part)))
            ELSE D_metadata(D_validate_path(pm,
                     FirstNamed(pm.val, materialized(last_part)).path))
        Descend(pm) == Match(pm, split_path(draft_path)[2])
    IN  IF split_path(draft_path)[2] = None
        THEN D_metadata(D_validate_path(c, index_folder.path))
        ELSE Bind(get_draft_file_metadata(c, index_folder, split_path(draft_path)[1]),
                  Descend)

\* The configured index for every path, whatever index parts it has.
configured_index_for(c, path) == get_index_by_id(c, self_index_id)

get_last_index_for(c, path) ==
    LET index_parts == SelectSeq(path.parts, part_is_index)
    IN  IF index_parts # <<>>
        THEN get_index_by_id(c, identifier_value(index_parts[Len(index_parts)]))
        ELSE get_index_by_id(c, self_index_id)

get_last_item_for(c, index, path) ==
    LET item_parts == SelectSeq(path.parts, part_is_item)
    IN  IF item_parts = <<>> THEN Fail(c, MetadataError("Illegal parts", 400))
        ELSE get_item_by_id(c, identifier_value(item_parts[Len(item_parts)]))

wrap_draft_entry(file_metadata, index_folder, index) ==
    IF file_metadata.kind = "folder"
    THEN WEKODraftFolderMetadata(self_index_id, file_metadata, index_folder, index)
    ELSE WEKODraftFileMetadata(self_index_id, file_metadata, index_folder, index)

wrap_draft_metadata(file_metadata, index_folder, index) ==
    IF file_metadata.kind = "list"
    THEN [k \in 1..Len(file_metadata.entries) |->
             wrap_draft_entry(file_metadata.entries[k], index_folder, index)]
    ELSE wrap_draft_entry(file_metadata, index_folder, index)

get_item_metadata(index, item) ==
    [k \in 1..Len(item.files) |-> WEKOFileMetadata(self_index_id, item.files[k], item, index)]

\* A listing with the items ahead of the sub-indices.
items_first(rindices, ritems, rdrafts) == ritems \o rindices \o rdrafts

\* return rindices + ritems + rdrafts
listing_order(rindices, ritems, rdrafts) == rindices \o ritems \o rdrafts

get_index_metadata(c, index) ==
    LET Listed(items) ==
            LET ritems == [k \in 1..Len(items.val) |->
                              WEKOItemMetadata(self_index_id, items.val[k], index)]
                rindices == [k \in 1..Len(children(index)) |->
                                WEKOIndexMetadata(self_index_id, children(index)[k])]
                Drafts(index_folder) ==
                    LET Wrapped(m) ==
                            Set(m, listing_order(rindices, ritems,
                                       wrap_draft_metadata(m.val, index_folder.val, index)))
                    IN  IF index_folder.val = None
                        THEN Set(index_folder, listing_order(rindices, ritems, <<>>))
                        ELSE Bind(D_metadata(D_validate_path(index_folder,
                                                             index_folder.val.path)),
                                  Wrapped)
            IN  Bind(get_index_folder(items, index.identifier, creates_default), Drafts)
    IN  Bind(get_items(c, index), Listed)

\* A mapping that takes every projection for a draft.
name_to_id(metadata) == <<"draft_file", metadata.name, metadata.name>>

\* _metadata_to_id(metadata); the projections the model builds are of the
\* five classes only.
metadata_to_id(metadata) ==
    IF metadata.weko = "index" THEN <<"index", metadata.index_identifier, metadata.name>>
    ELSE IF metadata.weko = "item" THEN <<"item", metadata.item_identifier, metadata.name>>
    ELSE IF metadata.weko = "file" THEN <<"item_file", metadata.name, metadata.name>>
    ELSE <<"draft_file", metadata.name, metadata.name>>

\* parent_path.child(metadata.name, _id=..., folder=metadata.is_folder)
path_from_metadata(parent_path, metadata) ==
    [parts |-> Append(parent_path.parts,
                      WEKOPathPart(metadata.name, metadata_to_id(metadata))),
     is_dir |-> metadata.kind = "folder"]

(* ------------------ provider.py: the operations ------------------------ *)

\* The folder a write goes into: the index folder itself, or the entry the
\* parent of the draft sub-path resolves to.
parent_folder_metadata(index_folder, draft_parent_path) ==
    IF Len(draft_parent_path.parts) = 1 THEN index_folder
    ELSE get_draft_file_metadata(index_folder, index_folder.val, as_file(draft_parent_path))

\* The draft sub-path of a path, split into <<parent path, last part>>.
draft_target(path) == split_path(split_draft_file_path(path)[2])

create_folder(d, path) ==
    LET InIndex(index) ==
            LET InFolder(index_folder) ==
                    LET Wrap(metadata) ==
                            Set(metadata,
                                WEKODraftFolderMetadata(self_index_id, metadata.val,
                                                        index_folder.val, index.val))
                        Create(parent) ==
                            Bind(D_create_folder(D_validate_path(parent,
                                     parent.val.path \o draft_target(path)[2].value)),
                                 Wrap)
                    IN  Bind(parent_folder_metadata(index_folder, draft_target(path)[1]),
                             Create)
            IN  Bind(get_index_folder(index, index.val.identifier, TRUE), InFolder)
    IN  IF ~is_draft_file(path)
        THEN Fail(Start(d), MetadataError("Cannot create folders to the item", 400))
        ELSE Bind(get_last_index_for(Start(d), path), InIndex)

HASH_WRITERS == <<"md5", "sha1", "sha256", "sha512">>

add_writers(c) ==
    [c EXCEPT !.log = @ \o [k \in 1..Len(HASH_WRITERS) |-> StreamCall(HASH_WRITERS[k])]]

\* D_upload once the stream has its hash writers; c.val stays the target path.
\* An upload whose writers are attached when the delegate has answered.
late_hashed_upload(c) == add_writers(D_upload(c))

hashed_upload(c) == D_upload(add_writers(c))

\* The value is <<metadata, created>>.
upload(d, path) ==
    LET InIndex(index) ==
            LET InFolder(index_folder) ==
                    LET Wrap(metadata) ==
                            Set(metadata,
                                << WEKODraftFileMetadata(self_index_id, metadata.val[1],
                                                         index_folder.val, index.val),
                                   metadata.val[2] >>)
                        Store(parent) ==
                            Bind(hashed_upload(D_validate_path(parent,
                                     parent.val.path \o draft_target(path)[2].value)),
                                 Wrap)
                    IN  Bind(parent_folder_metadata(index_folder, draft_target(path)[1]),
                             Store)
            IN  Bind(get_index_folder(index, index.val.identifier, TRUE), InFolder)
    IN  IF ~is_draft_file(path)
        THEN Fail(Start(d), MetadataError("Cannot upload files to the item", 404))
        ELSE Bind(get_last_index_for(Start(d), path), InIndex)

\* Addressing an entry by its materialized path.
materialized_path_of(c) ==
    IF c.val.kind = "list"
    THEN Fail(c, AttributeError("'list' object has no attribute 'path'"))
    ELSE D_validate_path(c, c.val.materialized_path)

\* validate_path(file_metadata.path); reading .path of a listing raises
\* AttributeError.
native_path_of(c) ==
    IF c.val.kind = "list"
    THEN Fail(c, AttributeError("'list' object has no attribute 'path'"))
    ELSE D_validate_path(c, c.val.path)

delete(d, path) ==
    LET InIndex(index) ==
            LET InFolder(index_folder) ==
                    LET Wrap(metadata) ==
                            IF metadata.val = None THEN metadata
                            ELSE Set(metadata,
                                     wrap_draft_metadata(metadata.val, index_folder.val,
                                                         index.val))
                        Remove(file_metadata) ==
                            Bind(Bind(native_path_of(file_metadata), D_delete), Wrap)
                    IN  IF index_folder.val = None
                        THEN Fail(index_folder, MetadataError("Unexpected path", 404))
                        ELSE Bind(get_draft_file_metadata(index_folder, index_folder.val,
                                      as_file(split_draft_file_path(path)[2])),
                                  Remove)
            IN  Bind(get_index_folder(index, index.val.identifier, creates_default), InFolder)
    IN  IF ~is_draft_file(path)
        THEN Fail(Start(d), MetadataError("Unsupported operation", 400))
        ELSE Bind(get_last_index_for(Start(d), path), InIndex)

\* The item file named by the path's last part, or the error for none.
item_file_of(item, path, err) ==
    LET Named(f) == f.filename = identifier_value(LastPart(path))
        files == SelectSeq(item.val.files, Named)
    IN  IF files = <<>> THEN Fail(item, err) ELSE Set(item, files[1])

download(d, path) ==
    LET InIndex(index) ==
            LET InFolder(index_folder) ==
                    LET Fetch(file_metadata) ==
                            Bind(native_path_of(file_metadata), D_download)
                    IN  IF index_folder.val = None
                        THEN Fail(index_folder, MetadataError("Unexpected path", 404))
                        ELSE Bind(get_draft_file_metadata(index_folder, index_folder.val,
                                      split_draft_file_path(path)[2]),
                                  Fetch)
                OfItem(item) ==
                    LET Stream(file) ==
                            Set(Call(file, UrlCall(file.val.download_url)),
                                [bytes_of |-> file.val.download_url])
                    IN  Bind(item_file_of(item, path, MetadataError("File not found", 404)),
                             Stream)
            IN  IF is_draft_file(path)
                THEN Bind(get_index_folder(index, index.val.identifier, creates_default), InFolder)
                ELSE IF ~is_item_file(path)
                THEN Fail(index, MetadataError("Illegal parts", 400))
                ELSE Bind(get_last_item_for(index, index.val, path), OfItem)
    IN  Bind(get_last_index_for(Start(d), path), InIndex)

metadata(d, path) ==
    LET OfIndex(index) == get_index_metadata(index, index.val)
        InIndex(index) ==
            LET Files(item) == Set(item, get_item_metadata(index.val, item.val))
                OfItem(item) ==
                    LET Project(file) ==
                            Set(file, WEKOFileMetadata(self_index_id, file.val, item.val,
                                                       index.val))
                    IN  Bind(item_file_of(item, path, MetadataError("Illegal parts", 400)),
                             Project)
                InFolder(index_folder) ==
                    LET Wrap(file_metadata) ==
                            Set(file_metadata,
                                wrap_draft_metadata(file_metadata.val, index_folder.val,
                                                    index.val))
                    IN  IF index_folder.val = None
                        THEN Fail(index_folder, MetadataError("Unexpected path", 404))
                        ELSE Bind(get_draft_file_metadata(index_folder, index_folder.val,
                                      split_draft_file_path(path)[2]),
                                  Wrap)
            IN  IF is_item(path)
                THEN Bind(get_item_by_id(index, identifier_value(LastPart(path))), Files)
                ELSE IF is_item_file(path)
                THEN Bind(get_last_item_for(index, index.val, path), OfItem)
                ELSE IF ~is_draft_file(path)
                THEN Fail(index, MetadataError("unsupported", 400))
                ELSE Bind(get_index_folder(index, index.val.identifier, creates_default), InFolder)
    IN  IF is_root(path)
        THEN Bind(get_index_by_id(Start(d), self_index_id), OfIndex)
        ELSE IF is_index(path)
        THEN Bind(get_index_by_id(Start(d), identifier_value(LastPart(path))), OfIndex)
        ELSE Bind(get_last_index_for(Start(d), path), InIndex)

\* Revisions asked of the delegate.
delegated_revisions(d, path) ==
    Set(Call(Start(d), DelegateCall("revisions", path.parts[Len(path.parts)].value)), <<>>)

revisions(d, path) == Set(Start(d), <<>>)

(* --------------------------- the requests ------------------------------ *)

MarkIndex(id) == ITEM_PREFIX \o id

MarkItem(id) == ITEM_PREFIX \o ITEM_WORD \o id

\* '/' + the segments joined, with a trailing '/' for a directory.
PathStr(segs, dir) ==
    SLASH \o Join(segs) \o (IF dir /\ segs # <<>> THEN SLASH ELSE <<>>)

SeqsUpTo(S, n) == UNION {[1..k -> S] : k \in 0..n}

\* Names that resolve to nothing remote under the configured index.
DraftNames == {<<"d">>, <<"e">>}

\* Segments of the resolver's inputs: titles, file names, draft names and
\* marker segments of present and absent indices and items.
Vocabulary ==
    {<<"s">>, <<"i">>, <<"f">>, <<"d">>,
     MarkIndex(<<"3">>), MarkIndex(<<"6">>), MarkItem(<<"7">>)}

AllPaths == {PathStr(segs, dir) : segs \in SeqsUpTo(Vocabulary, MaxSegs), dir \in BOOLEAN}

\* Paths into the remote tree: indices, items, item files, and illegal shapes.
RemotePaths ==
    {PathStr(segs, TRUE) : segs \in
        {<<>>, <<<<"s">>>>, <<MarkIndex(<<"3">>)>>, <<MarkIndex(<<"4">>)>>,
         <<MarkIndex(<<"5">>)>>,
         <<<<"i">>>>, <<MarkItem(<<"7">>)>>, <<<<"s">>, <<"j">>>>,
         <<<<"s">>, <<"d">>>>}}
    \cup
    {PathStr(segs, FALSE) : segs \in
        {<<<<"i">>, <<"f">>>>, <<MarkItem(<<"7">>), <<"f">>>>,
         <<<<"s">>, <<"j">>, <<"g">>>>, <<<<"i">>, <<"e">>>>,
         <<<<"i">>, <<"f">>, <<"d">>>>, <<<<"i">>, MarkIndex(<<"3">>)>>}}

\* Draft names from the overlay folder downwards, no name directly under
\* itself.
DraftTails ==
    {tail \in SeqsUpTo(DraftNames, MaxDraftDepth) \ {<<>>} :
        \A i \in 1..(Len(tail) - 1) : tail[i] # tail[i + 1]}

\* Paths into the draft overlay of the configured index and of a sub-index.
DraftPaths ==
    {PathStr(prefix \o tail, dir) :
        prefix \in {<<>>, <<<<"s">>>>}, tail \in DraftTails, dir \in BOOLEAN}

Paths == RemotePaths \cup DraftPaths

Idle ==
    [op |-> "none", path |-> <<>>, resolved |-> None, verr |-> NoError, vlog |-> <<>>,
     pre |-> {}, err |-> NoError, val |-> None, log |-> <<>>]

\* What the request did: v is the outcome of resolving its path, r of the
\* operation.
Record(name, p, v, r) ==
    [op |-> name, path |-> p, resolved |-> v.val, verr |-> v.err, vlog |-> v.log,
     pre |-> delegate, err |-> r.err, val |-> r.val, log |-> r.log]

Finish(name, p, v, r) ==
    /\ Cardinality(r.d) <= MaxEntries
    /\ delegate' = r.d
    /\ last' = Record(name, p, v, r)

\* The operation on a resolved path; a path that does not resolve ends the
\* request with the resolver's error.
Run(v, Op(_, _)) ==
    IF v.err # NoError THEN Fail(Start(delegate), v.err) ELSE Op(delegate, v.val)

Serve(name, p, v, Op(_, _)) == Finish(name, p, v, Run(v, Op))

\* The server resolves the request's path and hands the result to the operation.
Request(name, p, Op(_, _)) ==
    /\ last.op = "none"
    /\ Serve(name, p, validate_path(p), Op)
    /\ UNCHANGED <<remote, tasks>>

Resolved(p, v) ==
    last' = [Record("validate_path", p, v, v) EXCEPT !.log = <<>>]

Resolve(p) ==
    /\ last.op = "none"
    /\ Resolved(p, validate_path(p))
    /\ UNCHANGED <<remote, delegate, tasks>>

ValidatePath == \E p \in Paths : Resolve(p)

Metadata == \E p \in Paths : Request("metadata", p, metadata)

Download == \E p \in Paths : Request("download", p, download)

Upload == \E p \in Paths : Request("upload", p, upload)

CreateFolder == \E p \in Paths : Request("create_folder", p, create_folder)

Delete == \E p \in Paths : Request("delete", p, delete)

Revisions == \E p \in Paths : Request("revisions", p, revisions)

\* The response reaches the caller and the request is over.
Respond ==
    /\ last.op # "none"
    /\ last' = Idle
    /\ UNCHANGED <<remote, delegate, tasks>>

\* The repository is edited between two requests.
RemoteChange ==
    /\ last.op = "none"
    /\ remote' \in {[r EXCEPT !.status = remote.status] : r \in Remotes} \ {remote}
    /\ UNCHANGED <<delegate, last, tasks>>

\* An endpoint of the repository starts to answer 503; the outages followed
\* are those that begin before the first draft is stored.
Outage ==
    /\ last.op = "none"
    /\ delegate = {}
    /\ remote.status = AllUp
    /\ \E endpoint \in Endpoints : remote' = [remote EXCEPT !.status[endpoint] = 503]
    /\ UNCHANGED <<delegate, last, tasks>>

\* The endpoints of the repository answer 200 again.
Recovery ==
    /\ last.op = "none"
    /\ remote.status # AllUp
    /\ remote' = [remote EXCEPT !.status = AllUp]
    /\ UNCHANGED <<delegate, last, tasks>>

\* A coroutine that has not been started.
IdleTask ==
    [pc |-> "idle", op |-> "none", name |-> <<>>, index |-> None, draft_folder |-> None,
     index_folder |-> None, made |-> {}, addressed |-> None, err |-> NoError]

Init ==
    /\ remote = RemoteA
    /\ delegate = {}
    /\ last = Idle
    /\ tasks = [t \in 1..NumTasks |-> IdleTask]

Next ==
    \/ ValidatePath
    \/ Metadata
    \/ Download
    \/ Upload
    \/ CreateFolder
    \/ Delete
    \/ Revisions
    \/ Respond

Spec == Init /\ [][Next]_vars

\* The same requests on a repository whose index holds more than a page.
InitPages ==
    /\ remote = RemoteC
    /\ delegate = {}
    /\ last = Idle
    /\ tasks = [t \in 1..NumTasks |-> IdleTask]

SpecPages == InitPages /\ [][Next]_vars

\* The provider in front of a repository that is edited between requests.
NextEdits ==
    \/ Next
    \/ RemoteChange

SpecEdits == Init /\ [][NextEdits]_vars

\* The provider in front of a repository whose endpoints may fail.
NextOutage ==
    \/ Next
    \/ Outage
    \/ Recovery

SpecOutage == Init /\ [][NextOutage]_vars

\* The resolver alone, over every path of the vocabulary.
ResolveAny == \E p \in AllPaths : Resolve(p)

NextPath ==
    \/ ResolveAny
    \/ Respond
    \/ RemoteChange

SpecPath == Init /\ [][NextPath]_vars

(* ------------- concurrent writes, one step for each await -------------- *)

\* The resolved path of a write to a draft name directly under the root.
TaskPath(name) == validate_path(SLASH \o name).val

\* The task moves on with the outcome r of an awaited delegate call: an
\* error ends the coroutine, a value takes it to the next step.
Awaited(t, r, then) ==
    /\ Cardinality(r.d) <= MaxEntries
    /\ delegate' = r.d
    /\ tasks' = [tasks EXCEPT ![t] =
                    IF r.err # NoError THEN [then EXCEPT !.pc = "failed", !.err = r.err]
                    ELSE then]
    /\ UNCHANGED <<remote, last>>

\* A request for upload or create_folder on a draft path arrives and its
\* coroutine starts.
StartTask(t) ==
    /\ tasks[t].pc = "idle"
    /\ \E op \in {"upload", "create_folder"}, name \in DraftNames :
           tasks' = [tasks EXCEPT ![t] = [IdleTask EXCEPT !.pc = "get_index", !.op = op,
                                                         !.name = name]]
    /\ UNCHANGED <<remote, delegate, last>>

\* index = await self._get_last_index_for(path)
GetIndex(t) ==
    LET index == get_last_index_for(Start(delegate), TaskPath(tasks[t].name))
    IN  /\ tasks[t].pc = "get_index"
        /\ Awaited(t, index, [tasks[t] EXCEPT !.pc = "list_root",
                                              !.index = index.val.identifier])

\* Where a task goes once a folder was looked for in a listing: on with the
\* folder found, or to the step that creates it.
Looked(task, found, field, on, create) ==
    IF found = None THEN [task EXCEPT !.pc = create]
    ELSE [task EXCEPT !.pc = on, ![field] = found]

\* get_draft_folder: the root is listed and searched for the marker folder.
ListRoot(t) ==
    LET listing == D_metadata(D_validate_path(Start(delegate), SLASH))
    IN  /\ tasks[t].pc = "list_root"
        /\ Awaited(t, listing,
                   Looked(tasks[t], FirstNamed(listing.val, DRAFT_FOLDER_NAME),
                          "draft_folder", "list_marker", "create_marker"))

\* get_draft_folder, creates=True: no marker folder was listed, one is created.
CreateMarker(t) ==
    LET folder == D_create_folder(D_validate_path(Start(delegate),
                                      SLASH \o DRAFT_FOLDER_NAME \o SLASH))
    IN  /\ tasks[t].pc = "create_marker"
        /\ Awaited(t, folder, [tasks[t] EXCEPT !.pc = "list_marker",
                                               !.made = @ \cup {"marker"},
                                               !.draft_folder = folder.val])

\* get_index_folder: the marker folder is listed and searched for the index
\* folder.
ListMarker(t) ==
    LET listing == D_metadata(D_validate_path(Start(delegate), tasks[t].draft_folder.path))
    IN  /\ tasks[t].pc = "list_marker"
        /\ Awaited(t, listing,
                   Looked(tasks[t], FirstNamed(listing.val, tasks[t].index),
                          "index_folder", "forward", "create_index"))

\* get_index_folder, creates=True: no index folder was listed, one is created.
CreateIndex(t) ==
    LET folder == D_create_folder(D_validate_path(Start(delegate),
                      tasks[t].draft_folder.path \o tasks[t].index \o SLASH))
    IN  /\ tasks[t].pc = "create_index"
        /\ Awaited(t, folder, [tasks[t] EXCEPT !.pc = "forward",
                                               !.made = @ \cup {"index"},
                                               !.index_folder = folder.val])

\* The write is forwarded to the delegate, into the index folder.
Forward(t) ==
    LET target == D_validate_path(Start(delegate),
                                  tasks[t].index_folder.path \o tasks[t].name)
    IN  /\ tasks[t].pc = "forward"
        /\ Awaited(t, IF tasks[t].op = "upload" THEN hashed_upload(target)
                      ELSE D_create_folder(target),
                   [tasks[t] EXCEPT !.pc = "done", !.addressed = tasks[t].index_folder])

NextRace ==
    \E t \in 1..NumTasks :
        \/ StartTask(t)
        \/ GetIndex(t)
        \/ ListRoot(t)
        \/ CreateMarker(t)
        \/ ListMarker(t)
        \/ CreateIndex(t)
        \/ Forward(t)

SpecRace == Init /\ [][NextRace]_vars

(* ------------------------ reading a request ---------------------------- *)

\* The calls of a log that went to one collaborator.
CallsTo(log, to) ==
    LET Went(call) == call.to = to
    IN  SelectSeq(log, Went)

\* The delegate calls of a log with one of the operations.
DelegateOps(log, ops) ==
    LET Went(call) == call.to = "delegate" /\ call.op \in ops
    IN  SelectSeq(log, Went)

\* The operation ran on a path that resolved.
Served(ops) == last.op \in ops /\ last.verr = NoError

ServedDraft(ops) == Served(ops) /\ is_draft_file(last.resolved)

WriteOps == {"upload", "create_folder", "delete"}

\* A structural error: the code 400 error the resolver raises for an illegal
\* path.
StructuralError(err) == err.exc = "MetadataError" /\ err.code = 400

NotFoundError(err) == err.exc = "MetadataError" /\ err.code = 404

\* The index a path is in: its last index part, or the configured index.
TargetIndexId(path) ==
    LET at == {k \in 1..Len(path.parts) : part_is_index(path.parts[k])}
    IN  IF at = {} THEN self_index_id
        ELSE path.parts[CHOOSE k \in at : \A j \in at : j <= k].id[2]

\* The names of a path from its first draft part on.
DraftTail(path) ==
    LET at == {k \in 2..Len(path.parts) : part_is_draft_file(path.parts[k])}
        first == CHOOSE k \in at : \A j \in at : k <= j
    IN  IF at = {} THEN <<>>
        ELSE [k \in 1..(Len(path.parts) - first + 1) |->
                 materialized(path.parts[first + k - 1])]

\* The skeleton among the delegate's entries d.
MarkerFolders(d) == {e \in d : e.parent = <<>> /\ e.name = <<".", "w", "e", "k", "o">>}

IndexFolders(d, index_id) ==
    {e \in d : e.name = index_id /\ \E m \in MarkerFolders(d) : e.parent = m.id}

NativePath(e) == SLASH \o e.id \o (IF e.kind = "folder" THEN SLASH ELSE <<>>)

MarkerPath == <<"/", ".", "w", "e", "k", "o", "/">>

\* The entry the names lead to from entry e, one name a level; None when a
\* name is missing or a file is in the way.
RECURSIVE Walk(_, _, _)
Walk(d, e, names) ==
    IF names = <<>> THEN e
    ELSE IF e.kind = "file" \/ ~\E c \in d : c.parent = e.id /\ c.name = names[1] THEN None
    ELSE Walk(d, CHOOSE c \in d : c.parent = e.id /\ c.name = names[1], Tail(names))

\* The entry a draft path names among the entries d, or None.
DraftEntry(d, path) ==
    IF IndexFolders(d, TargetIndexId(path)) = {} THEN None
    ELSE Walk(d, CHOOSE f \in IndexFolders(d, TargetIndexId(path)) : TRUE, DraftTail(path))

\* The entry a write to a draft path puts its target into, or None.
DraftParent(d, path) ==
    IF IndexFolders(d, TargetIndexId(path)) = {} THEN None
    ELSE Walk(d, CHOOSE f \in IndexFolders(d, TargetIndexId(path)) : TRUE,
              SubSeq(DraftTail(path), 1, Len(DraftTail(path)) - 1))

\* The skeleton create_folder calls a write owes, given the entries before
\* it (pre) and after it (post).
SkeletonCreates(pre, post, index_id) ==
    (IF MarkerFolders(pre) = {} THEN <<DelegateCall("create_folder", MarkerPath)>> ELSE <<>>)
    \o (IF IndexFolders(pre, index_id) = {}
        THEN <<DelegateCall("create_folder",
                   NativePath(CHOOSE m \in MarkerFolders(post) : TRUE) \o index_id \o SLASH)>>
        ELSE <<>>)

(* ---------------------------- properties ------------------------------- *)

\* C1: upload, create_folder and delete on a root, index, item or item_file
\* path each fail with a structural error, the same for all three, and issue
\* no call to the delegate.
C1_WritesRejectedAlike ==
    (Served(WriteOps) /\ ~is_draft_file(last.resolved))
        => (StructuralError(last.err) /\ CallsTo(last.log, "delegate") = <<>>)

\* C2: a path validate_path returns has at most one item part, no index part
\* after an item part and no part after an item_file part; an input that
\* continues a resolved item with a marker segment, or a resolved item file
\* with any segment, is rejected with a structural error.
C2_ResolvedPathShape ==
    last.op = "validate_path" =>
        LET segs == Split(RStrip(last.path))
            Prefix(k) == validate_path(Join(SubSeq(segs, 1, k)))
            Continues(k) ==
                /\ Prefix(k).err = NoError
                /\ \/ is_item_file(Prefix(k).val)
                   \/ /\ \E j \in 1..k : part_is_item(Prefix(k).val.parts[j])
                      /\ StartsWith(segs[k + 1], ITEM_PREFIX)
        IN  /\ last.verr = NoError =>
                LET parts == last.resolved.parts IN
                /\ Cardinality({k \in 1..Len(parts) : part_is_item(parts[k])}) <= 1
                /\ \A j, k \in 1..Len(parts) :
                       (part_is_item(parts[j]) /\ part_is_index(parts[k])) => k < j
                /\ \A k \in 1..Len(parts) : part_is_item_file(parts[k]) => k = Len(parts)
            /\ (\E k \in 2..(Len(segs) - 1) : Continues(k)) => StructuralError(last.verr)

C2_Witness ==
    /\ last.op = "validate_path" /\ last.verr = NoError
    /\ is_item_file(last.resolved)
    /\ Len(last.resolved.parts) = 4
    /\ part_is_index(last.resolved.parts[2])

\* C3: with no skeleton on the delegate, an upload or create_folder to a draft
\* path first creates '/.weko/', then the folder named by the index id inside
\* it, and only then forwards its one call; no other call changes the
\* delegate, and the result is a draft projection carrying the index id.
C3_SkeletonThenForward ==
    (ServedDraft({"upload", "create_folder"}) /\ MarkerFolders(last.pre) = {}) =>
        LET changes == DelegateOps(last.log, WriteOps)
            index_id == TargetIndexId(last.resolved)
            made == IF last.op = "upload" THEN last.val[1] ELSE last.val
        IN  /\ Len(changes) \in {2, 3}
            /\ changes[1] = DelegateCall("create_folder", MarkerPath)
            /\ \E m \in MarkerFolders(delegate) :
                   changes[2] = DelegateCall("create_folder",
                                             NativePath(m) \o index_id \o SLASH)
            /\ Len(changes) = 3 => changes[3].op = last.op
            /\ last.err = NoError =>
                   /\ Len(changes) = 3
                   /\ made.weko = "draft"
                   /\ made.index = index_id
                   /\ made.kind = (IF last.op = "upload" THEN "file" ELSE "folder")

C3_Witness ==
    /\ ServedDraft({"upload"}) /\ last.pre = {} /\ last.err = NoError
    /\ TargetIndexId(last.resolved) = <<"3">>
    /\ Len(DelegateOps(last.log, {"create_folder"})) = 2
    /\ Len(DelegateOps(last.log, {"upload"})) = 1

\* C4: a write creates a skeleton level only when the level is absent from the
\* delegate at that moment: none when the marker folder and the index folder
\* are both listed, the index folder alone when only the marker folder is.
\* Beyond the skeleton an upload issues no create_folder call, and a
\* create_folder issues one, for its target under the native path of the
\* entry its parent resolves to.
C4_LazySkeleton ==
    ServedDraft({"upload", "create_folder"}) =>
        LET creates == DelegateOps(last.log, {"create_folder"})
            owed == SkeletonCreates(last.pre, delegate, TargetIndexId(last.resolved))
            parent == DraftParent(delegate, last.resolved)
            tail == DraftTail(last.resolved)
        IN  IF last.op = "create_folder" /\ parent # None
            THEN creates = Append(owed, DelegateCall("create_folder",
                                            NativePath(parent) \o tail[Len(tail)]))
            ELSE creates = owed

C4_Witness ==
    /\ ServedDraft({"create_folder"}) /\ last.err = NoError
    /\ MarkerFolders(last.pre) # {}
    /\ IndexFolders(last.pre, TargetIndexId(last.resolved)) = {}
    /\ Len(DelegateOps(last.log, {"create_folder"})) = 2

\* The remote file an item_file path names.
ItemFileOf(path) ==
    LET parts == path.parts
        item == CHOOSE it \in {remote.items[k] : k \in 1..Len(remote.items)} :
                    it.id = parts[Len(parts) - 1].id[2]
        Named(f) == f.filename = parts[Len(parts)].id[2]
    IN  SelectSeq(item.files, Named)[1]

\* C5: download of an item_file path fetches the file's download_url and
\* makes no call to the delegate, whatever the delegate holds.
C5_ItemFileBypassesDelegate ==
    (Served({"download"}) /\ is_item_file(last.resolved)) =>
        /\ CallsTo(last.log, "delegate") = <<>>
        /\ CallsTo(last.log, "url") = <<UrlCall(ItemFileOf(last.resolved).download_url)>>
        /\ last.err = NoError
        /\ last.val = [bytes_of |-> ItemFileOf(last.resolved).download_url]
        /\ delegate = last.pre

C5_Witness ==
    /\ Served({"download"}) /\ is_item_file(last.resolved)
    /\ IndexFolders(last.pre, TargetIndexId(last.resolved)) # {}
    /\ Len(CallsTo(last.log, "url")) = 1

RemoteIndices ==
    flatten_indices([k \in 1..Len(remote.tree) |-> Index(remote.tree[k], None)])

RemoteIndex(id) ==
    RemoteIndices[CHOOSE k \in 1..Len(RemoteIndices) : RemoteIndices[k].identifier = id]

\* C7: metadata of the root or of an index path lists the index's sub-indices,
\* then its items, then the entries of its overlay folder, each as its
\* projection; with no overlay folder it lists sub-indices, then items, and
\* nothing else.
C7_ListingOrder ==
    (Served({"metadata"}) /\ (is_root(last.resolved) \/ is_index(last.resolved))) =>
        LET index_id == IF is_root(last.resolved) THEN self_index_id
                        ELSE LastPart(last.resolved).id[2]
            subs == RemoteIndex(index_id).raw.children
            InIndex(it) == it.index = index_id
            items == SelectSeq(remote.items, InIndex)
            drafts == {e \in last.pre :
                          \E f \in IndexFolders(last.pre, index_id) : e.parent = f.id}
            listed == last.val
            n == Len(subs)
            m == Len(items)
        IN  /\ last.err = NoError
            /\ Len(listed) = n + m + Cardinality(drafts)
            /\ \A k \in 1..n :
                   listed[k].weko = "index" /\ listed[k].indexId = subs[k].id
            /\ \A k \in 1..m :
                   listed[n + k].weko = "item" /\ listed[n + k].item_identifier = items[k].id
            /\ \A k \in (n + m + 1)..Len(listed) :
                   listed[k].weko = "draft" /\ listed[k].index = index_id
            /\ {listed[k].raw.id : k \in (n + m + 1)..Len(listed)}
                   = {e.id : e \in drafts}

C7_Witness ==
    /\ Served({"metadata"}) /\ is_root(last.resolved)
    /\ Len(last.val) >= 3
    /\ last.val[1].weko = "index"
    /\ last.val[2].weko = "item"
    /\ last.val[3].weko = "draft"

\* C8: a delete issues no upload and no create_folder call; on a draft path
\* whose names lead to an entry it issues one delete call, addressed by the
\* entry's native path, and removes nothing else than that entry and what is
\* under it; when the path does not resolve, or leads to no entry, it issues
\* no delete call and the delegate keeps its entries.
C8_DeleteForwardsOnce ==
    last.op = "delete" =>
        LET deletes == DelegateOps(last.log, {"delete"})
            entry == IF last.verr = NoError /\ is_draft_file(last.resolved)
                     THEN DraftEntry(last.pre, last.resolved) ELSE None
        IN  /\ DelegateOps(last.log, {"upload", "create_folder"}) = <<>>
            /\ IF entry # None
               THEN /\ deletes = <<DelegateCall("delete", NativePath(entry))>>
                    /\ delegate = last.pre \ Under(last.pre, {entry})
               ELSE /\ deletes = <<>>
                    /\ delegate = last.pre
                    /\ last.err # NoError

C8_Witness ==
    /\ ServedDraft({"delete"}) /\ last.err = NoError
    /\ last.val.kind = "folder"
    /\ Cardinality(last.pre \ delegate) = 2
    /\ Len(DelegateOps(last.log, {"delete"})) = 1

\* A delete on a draft path whose index has no overlay folder.
DeleteWithoutSkeleton ==
    /\ ServedDraft({"delete"})
    /\ IndexFolders(last.pre, TargetIndexId(last.resolved)) = {}

\* C9, as stated: a delete on a draft path whose index has no skeleton first
\* materializes the two-level skeleton and does not fail for the missing
\* folder.
C9_DeleteMaterializesSkeleton ==
    DeleteWithoutSkeleton =>
        /\ IndexFolders(delegate, TargetIndexId(last.resolved)) # {}
        /\ ~NotFoundError(last.err)

\* C9: a delete on a draft path whose index has no overlay folder fails with
\* the not-found error 'Unexpected path'; it issues no create_folder call and
\* no delete call and leaves the delegate as it was.
C9_DeleteNeedsSkeleton ==
    DeleteWithoutSkeleton =>
        /\ last.err = MetadataError("Unexpected path", 404)
        /\ DelegateOps(last.log, WriteOps) = <<>>
        /\ delegate = last.pre

C9_Witness ==
    /\ DeleteWithoutSkeleton
    /\ MarkerFolders(last.pre) # {}
    /\ NotFoundError(last.err)

\* C10: in a path that validate_path resolves to an item file, the part before
\* the last is an item part identified by <<item, backend id, title>> of a
\* remote item, the last part is identified by <<item_file, filename,
\* filename>>, and the file is one of that item's files.
C10_ItemFileUnderItsItem ==
    (last.op = "validate_path" /\ last.verr = NoError /\ is_item_file(last.resolved)) =>
        LET parts == last.resolved.parts
            n == Len(parts)
        IN  /\ n >= 3
            /\ \E k \in 1..Len(remote.items) :
                   /\ parts[n - 1].id = <<"item", remote.items[k].id, remote.items[k].title>>
                   /\ \E j \in 1..Len(remote.items[k].files) :
                          /\ remote.items[k].files[j].filename = parts[n].value
                          /\ parts[n].id = <<"item_file", parts[n].value, parts[n].value>>

C10_Witness ==
    /\ last.op = "validate_path" /\ last.verr = NoError
    /\ is_item_file(last.resolved)
    /\ Len(last.resolved.parts) = 3
    /\ StartsWith(last.resolved.parts[2].value, ITEM_PREFIX)

\* The remote calls of a log to one endpoint.
RemoteOps(log, op) ==
    LET Went(call) == call.to = "remote" /\ call.op = op
    IN  SelectSeq(log, Went)

\* The index in force before part k of a sequence of parts: the last index
\* part before it, or the configured index.
IndexBefore(parts, k) ==
    LET at == {j \in 1..(k - 1) : part_is_index(parts[j])}
    IN  IF at = {} THEN self_index_id
        ELSE parts[CHOOSE j \in at : \A i \in at : i <= j].id[2]

\* Part k is an ordinary segment met before any item: not the root, not a
\* marker, and no item or item file before it.
OrdinaryPart(parts, k) ==
    /\ k >= 2
    /\ ~StartsWith(parts[k].value, ITEM_PREFIX)
    /\ \A j \in 1..(k - 1) : ~part_is_item(parts[j]) /\ ~part_is_item_file(parts[j])

\* The children of the index in force titled like part k, in tree order.
SubIndicesNamed(parts, k) ==
    LET Titled(desc) == desc.name = parts[k].value
    IN  SelectSeq(RemoteIndex(IndexBefore(parts, k)).raw.children, Titled)

\* The items of the index in force titled like part k, in search order.
ItemsNamed(parts, k) ==
    LET Titled(it) == it.index = IndexBefore(parts, k) /\ it.title = parts[k].value
    IN  SelectSeq(remote.items, Titled)

\* C11: an ordinary segment met before any item is identified as the first
\* child of the index in force with its title, else as the first item of that
\* index with its title, else as a draft file <<draft_file, segment, segment>>;
\* the items of the index are searched only for the segments no child matches.
C11_OrdinarySegmentOrder ==
    (last.op = "validate_path" /\ last.verr = NoError) =>
        LET parts == last.resolved.parts
            seg(k) == parts[k].value
        IN  /\ \A k \in 1..Len(parts) : OrdinaryPart(parts, k) =>
                   parts[k].id =
                       IF SubIndicesNamed(parts, k) # <<>>
                       THEN <<"index", SubIndicesNamed(parts, k)[1].id, seg(k)>>
                       ELSE IF ItemsNamed(parts, k) # <<>>
                       THEN <<"item", ItemsNamed(parts, k)[1].id, seg(k)>>
                       ELSE <<"draft_file", seg(k), seg(k)>>
            /\ Len(RemoteOps(last.vlog, "search"))
                   = Cardinality({k \in 1..Len(parts) :
                         OrdinaryPart(parts, k) /\ SubIndicesNamed(parts, k) = <<>>})

C11_Witness ==
    /\ last.op = "validate_path" /\ last.verr = NoError
    /\ Len(last.resolved.parts) = 3
    /\ OrdinaryPart(last.resolved.parts, 3)
    /\ part_is_index(last.resolved.parts[3])
    /\ ItemsNamed(last.resolved.parts, 3) # <<>>
    /\ RemoteOps(last.vlog, "search") = <<>>

\* The segment marks an index: 'weko:<id>'.
IndexMarker(seg) == StartsWith(seg, ITEM_PREFIX) /\ parse_item_file_id(seg) = <<>>

\* The index lookups resolving the parts takes: one for each index marker,
\* and one for the configured index when the first segment is no index marker.
LookupsResolving(parts) ==
    Cardinality({k \in 2..Len(parts) : IndexMarker(parts[k].value)})
        + (IF Len(parts) >= 2 /\ ~IndexMarker(parts[2].value) THEN 1 ELSE 0)

\* The index lookups the operation takes on a resolved path: one, but none
\* for revisions and for a write the path's kind rejects.
LookupsServing(op, path) ==
    IF op = "revisions" \/ (op \in WriteOps /\ ~is_draft_file(path)) THEN 0 ELSE 1

\* C12: no index lookup is answered from a cache: every get_index_by_id
\* fetches the tree once, so a request that makes n lookups makes n tree
\* fetches, and the indices a lookup returns are those of the tree as it is
\* at that fetch.
C12_OneFetchPerLookup ==
    (last.op # "none" /\ last.verr = NoError) =>
        LET parts == last.resolved.parts
        IN  /\ Len(RemoteOps(last.vlog, "tree")) = LookupsResolving(parts)
            /\ last.op # "validate_path" =>
                    Len(RemoteOps(last.log, "tree")) = LookupsServing(last.op, last.resolved)
            /\ \A k \in 1..Len(parts) :
                    part_is_index(parts[k]) =>
                        /\ \E j \in 1..Len(RemoteIndices) :
                               RemoteIndices[j].identifier = parts[k].id[2]
                        /\ RemoteIndex(parts[k].id[2]).title = parts[k].id[3]

C12_Witness ==
    /\ last.op = "metadata"
    /\ last.verr = NoError
    /\ remote = RemoteB
    /\ \E k \in 1..Len(last.resolved.parts) :
           last.resolved.parts[k].id = <<"index", <<"5">>, <<"d">>>>
    /\ Len(RemoteOps(last.vlog, "tree")) = 1
    /\ Len(RemoteOps(last.log, "tree")) = 1

\* The input's first segment marks an index.
MarkerFirst(path) ==
    Len(Split(RStrip(path))) >= 2 /\ IndexMarker(Split(RStrip(path))[2])

\* The id the input's first segment marks.
MarkedFirst(path) == Drop(Split(RStrip(path))[2], Len(ITEM_PREFIX))

\* The indices of the remote tree with the id, in depth-first pre-order.
RemoteIndicesWith(id) ==
    LET Same(index) == index.identifier = id
    IN  SelectSeq(RemoteIndices, Same)

\* C13: get_index_by_id returns the first index of the freshly fetched tree,
\* in depth-first pre-order, with the requested id, and fails with a
\* not-found error when the tree has none; so validate_path on a path whose
\* marker segment names an absent index fails with a not-found error.
C13_AbsentIndexNotFound ==
    (last.op = "validate_path" /\ MarkerFirst(last.path)) =>
        IF RemoteIndicesWith(MarkedFirst(last.path)) = <<>>
        THEN NotFoundError(last.verr)
        ELSE last.verr = NoError =>
                 last.resolved.parts[2].id =
                     <<"index", MarkedFirst(last.path),
                       RemoteIndicesWith(MarkedFirst(last.path))[1].title>>

\* The ids of the indices in the subtree of the configured root.
UnderRoot ==
    LET below == flatten_indices(children(RemoteIndex(self_index_id)))
    IN  {self_index_id} \cup {below[k].identifier : k \in 1..Len(below)}

\* The projections of remote objects a served metadata request returned:
\* the listing of a root, index or item path, or the one file of an item
\* file path.
RemoteProjections ==
    IF ~(Served({"metadata"}) /\ last.err = NoError) THEN {}
    ELSE IF is_root(last.resolved) \/ is_index(last.resolved) \/ is_item(last.resolved)
    THEN {last.val[k] : k \in {j \in 1..Len(last.val) : last.val[j].weko # "draft"}}
    ELSE IF is_item_file(last.resolved) THEN {last.val}
    ELSE {}

\* The identifier triple validate_path gives the last part of a path string.
ResolvedTriple(path) ==
    IF validate_path(path).err # NoError THEN <<>>
    ELSE LastPart(validate_path(path).val).id

\* Within every index of the repository no two of its sub-indices and items
\* share a title, and no title starts with the marker prefix.
DistinctTitles ==
    \A n \in 1..Len(RemoteIndices) :
        LET InIndex(it) == it.index = RemoteIndices[n].identifier
            items == SelectSeq(remote.items, InIndex)
            subs == children(RemoteIndices[n])
            titles == [k \in 1..(Len(subs) + Len(items)) |->
                          IF k <= Len(subs) THEN subs[k].title
                          ELSE items[k - Len(subs)].title]
        IN  \A j, k \in 1..Len(titles) :
                /\ j # k => titles[j] # titles[k]
                /\ ~StartsWith(titles[k], ITEM_PREFIX)

RECURSIVE ChainBelowRoot(_)
ChainBelowRoot(index) ==
    IF index.identifier = self_index_id THEN <<>>
    ELSE Append(ChainBelowRoot(index.parent), index)

\* The ids of an index and of its ancestors in the true tree.
RECURSIVE SelfAndAncestors(_)
SelfAndAncestors(index) ==
    IF index = None THEN {}
    ELSE {index.identifier} \cup SelfAndAncestors(index.parent)

\* '<marker><id>/' for each index of the chain, and '<title>/'.
RECURSIVE ChainPath(_)
ChainPath(chain) ==
    IF chain = <<>> THEN <<>>
    ELSE MarkIndex(chain[1].identifier) \o SLASH \o ChainPath(Tail(chain))

RECURSIVE ChainTitles(_)
ChainTitles(chain) ==
    IF chain = <<>> THEN <<>>
    ELSE chain[1].title \o SLASH \o ChainTitles(Tail(chain))

\* The part a projection appends to the path of its index.
OwnPath(m) ==
    IF m.weko = "index" THEN <<>>
    ELSE IF m.weko = "item" THEN ITEM_PREFIX \o m.fileId \o SLASH
    ELSE ITEM_PREFIX \o m.itemId \o SLASH \o m.name

\* C15: every projected path is relative to the configured root: the path
\* of a projection is '/' followed by marker+id+'/' for each index from the
\* configured root (exclusive) down to its index (inclusive) and then its own
\* part, the configured root projects to '/', and neither the configured
\* root nor any of its ancestors appears in a projected path.
C15_PathsRelativeToRoot ==
    \A m \in RemoteProjections :
        /\ m.index_identifier \in UnderRoot =>
               /\ m.path = SLASH \o ChainPath(ChainBelowRoot(RemoteIndex(m.index_identifier)))
                               \o OwnPath(m)
               /\ m.weko = "index" =>
                      m.materialized_path =
                          SLASH \o ChainTitles(ChainBelowRoot(RemoteIndex(m.index_identifier)))
        /\ \A id \in SelfAndAncestors(RemoteIndex(self_index_id)) :
               \A k \in 1..Len(Split(m.path)) : Split(m.path)[k] # MarkIndex(id)

\* The draft projections in the listing of a root or index path.
DraftProjections ==
    IF Served({"metadata"}) /\ last.err = NoError
          /\ (is_root(last.resolved) \/ is_index(last.resolved))
    THEN {last.val[k] : k \in {j \in 1..Len(last.val) : last.val[j].weko = "draft"}}
    ELSE {}

\* A metadata request returned the one projection of the node its path names:
\* an item file, or a draft that is not listed as a folder.
SingleProjection ==
    /\ Served({"metadata"})
    /\ last.err = NoError
    /\ \/ is_item_file(last.resolved)
       \/ is_draft_file(last.resolved) /\ ~last.resolved.is_dir

\* The path string of a name directly under the requested path.
ChildOfRequest(name) == RStrip(last.path) \o SLASH \o name

RemoteItem(id) == remote.items[CHOOSE k \in 1..Len(remote.items) : remote.items[k].id = id]

\* The projection of the same index or item under another configured root.
ProjectedUnder(root_index_id, m) ==
    IF m.weko = "index" THEN WEKOIndexMetadata(root_index_id, RemoteIndex(m.index_identifier))
    ELSE WEKOItemMetadata(root_index_id, RemoteItem(m.item_identifier),
                          RemoteIndex(m.index_identifier))

\* C16: path_from_metadata gives a projection the identifier triple that
\* validate_path gives a segment resolving to the same node: (index, id,
\* title), (item, id, title), (item_file, filename, filename) and
\* (draft_file, name, name) for draft files and draft folders alike; the
\* triple is the same whichever index is the configured root.
C16_MetadataToId ==
    /\ \A m \in RemoteProjections :
           /\ LastPart(path_from_metadata(last.resolved, m)).id = ResolvedTriple(m.path)
           /\ m.weko \in {"index", "item"} =>
                  \A n \in 1..Len(RemoteIndices) :
                      metadata_to_id(ProjectedUnder(RemoteIndices[n].identifier, m))
                          = metadata_to_id(m)
    /\ \A m \in DraftProjections :
           ResolvedTriple(ChildOfRequest(m.name))[1] = "draft_file" =>
               LastPart(path_from_metadata(last.resolved, m)).id
                   = ResolvedTriple(ChildOfRequest(m.name))
    /\ SingleProjection =>
           ids_of(path_from_metadata(split_path(last.resolved)[1], last.val).parts)
               = ids_of(last.resolved.parts)

C16_Witness ==
    /\ \E m \in RemoteProjections : m.weko = "index"
    /\ \E m \in RemoteProjections : m.weko = "item"
    /\ \E m \in DraftProjections : m.kind = "file"
    /\ \E m \in DraftProjections : m.kind = "folder"

\* Among the entries d, a segment of the path's draft sub-path other than
\* the last resolves to a file.
FileOnTheWay(d, path) ==
    /\ IndexFolders(d, TargetIndexId(path)) # {}
    /\ \E k \in 1..(Len(DraftTail(path)) - 1) :
           LET e == Walk(d, CHOOSE f \in IndexFolders(d, TargetIndexId(path)) : TRUE,
                         SubSeq(DraftTail(path), 1, k))
           IN  e # None /\ e.kind = "file"

\* C18: draft sub-path resolution does not descend into a file: metadata,
\* download, delete, upload and create_folder on a draft path one of whose
\* segments before the last (the direct parent of an upload or create_folder
\* target included) resolves to a file fail with a structural error and
\* forward no upload, create_folder, delete or download to the delegate.
C18_NoDescentIntoFile ==
    (/\ ServedDraft({"metadata", "download", "delete", "upload", "create_folder"})
     /\ FileOnTheWay(last.pre, last.resolved))
        => /\ StructuralError(last.err)
           /\ DelegateOps(last.log, {"upload", "create_folder", "delete", "download"}) = <<>>

\* The index folder of the path's index among the entries d.
IndexFolder(d, path) == CHOOSE f \in IndexFolders(d, TargetIndexId(path)) : TRUE

\* The number of leading names of the draft sub-path that lead to an entry.
Matched(d, path) ==
    Cardinality({k \in 1..Len(DraftTail(path)) :
                    Walk(d, IndexFolder(d, path), SubSeq(DraftTail(path), 1, k)) # None})

\* The levels a read lists below the index folder: every matched segment
\* but the last one of a path that is not a directory; delete reads its
\* path as a file.
Listed(d, op, path) ==
    IF Matched(d, path) = Len(DraftTail(path)) /\ (op = "delete" \/ ~path.is_dir)
    THEN Matched(d, path) - 1
    ELSE Matched(d, path)

\* A read of a draft path whose index folder exists and whose sub-path does
\* not run through a file.
DraftRead ==
    /\ ServedDraft({"metadata", "download", "delete"})
    /\ IndexFolders(last.pre, TargetIndexId(last.resolved)) # {}
    /\ ~FileOnTheWay(last.pre, last.resolved)

\* A write to a draft path whose parent sub-path does not run through a
\* file.
DraftWrite ==
    /\ ServedDraft({"upload", "create_folder"})
    /\ ~FileOnTheWay(last.pre, last.resolved)

\* The native paths of the metadata calls of a log.
ListedPaths(log) ==
    [k \in 1..Len(DelegateOps(log, {"metadata"})) |-> DelegateOps(log, {"metadata"})[k].arg]

\* C19: a draft sub-path is resolved one segment at a time, each by exact
\* name in the listing of the level before it, starting with the listing of
\* the index folder; a segment with no entry of its name ends the operation
\* with a not-found error and no delete, download or upload is forwarded;
\* the empty sub-path gives the full listing of the index folder.
C19_SegmentBySegment ==
    /\ DraftRead =>
           LET d == last.pre
               path == last.resolved
               folder == IndexFolder(d, path)
               names == DraftTail(path)
           IN  /\ ListedPaths(last.log) =
                      << SLASH, NativePath(CHOOSE m \in MarkerFolders(d) : TRUE),
                         NativePath(folder) >>
                      \o [k \in 1..Listed(d, last.op, path) |->
                              NativePath(Walk(d, folder, SubSeq(names, 1, k)))]
               /\ Matched(d, path) < Len(names) =>
                      /\ NotFoundError(last.err)
                      /\ DelegateOps(last.log, {"delete", "download", "upload"}) = <<>>
    /\ (/\ DraftWrite
        /\ Len(DraftTail(last.resolved)) >= 2
        /\ DraftParent(last.pre, last.resolved) = None) =>
           /\ NotFoundError(last.err)
           /\ DelegateOps(last.log, {"delete", "download", "upload"}) = <<>>
    /\ \A f \in IndexFolders(delegate, self_index_id) :
           get_draft_file_metadata(Start(delegate), EntryMetadata(delegate, f),
                                   WEKOPath(SLASH, <<<<"root", <<>>, <<>>>>>>)).val
               = Listing(delegate, f.id)

C19_Witness ==
    /\ DraftRead
    /\ last.op = "delete"
    /\ Len(DraftTail(last.resolved)) = 2
    /\ Matched(last.pre, last.resolved) = 1
    /\ Cardinality({e \in delegate : e.parent = IndexFolder(delegate, last.resolved).id}) >= 2

\* The call went to an endpoint of the repository that answers an error
\* status.
Refused(call) == call.to = "remote" /\ remote.status[call.op] # 200

\* The log ends with its one refused call, and err is the MetadataError with
\* the status the call got; with no refused call, err is no such error.
StopsAtRefusal(log, err) ==
    /\ \A k \in 1..Len(log) :
           Refused(log[k]) =>
               /\ k = Len(log)
               /\ err = MetadataError("remote", remote.status[log[k].op])
    /\ (err.exc = "MetadataError" /\ err.msg = "remote") =>
           (log # <<>> /\ Refused(log[Len(log)]))

\* C20: errors propagate unmodified and nothing is retried: a remote call
\* answered with a non-success status, or a delegate call that fails, ends
\* the request at that step: it is the last call of the request, it is made
\* once, the caller gets that error, and an error while resolving the path
\* leaves the operation unrun.
C20_ErrorsPropagate ==
    last.op # "none" =>
        /\ StopsAtRefusal(last.vlog, last.verr)
        /\ IF last.verr # NoError
           THEN /\ last.err = last.verr
                /\ last.log = <<>>
                /\ delegate = last.pre
           ELSE StopsAtRefusal(last.log, last.err)
        /\ last.err.exc = "DelegateError" =>
               /\ last.log # <<>>
               /\ last.log[Len(last.log)].to = "delegate"
               /\ last.log[Len(last.log)].op # "validate_path"

C20_Witness ==
    /\ Served({"metadata"})
    /\ remote.status.search = 503
    /\ last.log = <<RemoteCall("tree", <<>>), RemoteCall("search", SearchQuery(self_index_id, DEFAULT_PAGE, DefaultSize))>>
    /\ last.err = MetadataError("remote", 503)

\* The tasks that issued a create_folder for a folder of the skeleton.
Made(what) == {t \in 1..NumTasks : what \in tasks[t].made}

\* The tasks whose coroutine has ended.
Ended == {t \in 1..NumTasks : tasks[t].pc \in {"done", "failed"}}

\* C17: for every interleaving, at their awaits, of concurrent uploads and
\* create_folders under one index that start with no skeleton, the delegate
\* gets at most one create_folder for the marker folder and at most one for
\* the index folder, and every operation ends addressing the same index
\* folder.
C17_OneSkeletonForAll ==
    /\ Cardinality(Made("marker")) <= 1
    /\ Cardinality(Made("index")) <= 1
    /\ \A t \in Ended : tasks[t].addressed # None
    /\ \A t, u \in Ended : tasks[t].addressed = tasks[u].addressed

\* C21: validate_path keeps the path in the configured index: every index
\* part of a path it returns is the configured root or one of its
\* descendants in the fetched tree, and a marker segment naming an index
\* outside that subtree is not resolved.
C21_InConfiguredIndex ==
    (last.op # "none" /\ last.verr = NoError) =>
        \A k \in 1..Len(last.resolved.parts) :
            part_is_index(last.resolved.parts[k]) =>
                last.resolved.parts[k].id[2] \in UnderRoot

(* --------------- metadata.py: draft projections, as a function --------- *)

\* A folder's metadata as create_folder may return it: the materialized
\* path without the final '/'.
Bare(file) ==
    IF file.kind = "folder"
    THEN [file EXCEPT !.materialized_path = RStrip(file.materialized_path)]
    ELSE file

\* The delegate's metadata of its entries, listed or just created.
DelegateMetadata ==
    {EntryMetadata(delegate, e) : e \in delegate}
        \cup {Bare(EntryMetadata(delegate, e)) : e \in delegate}

DelegateFolders ==
    {EntryMetadata(delegate, e) : e \in {f \in delegate : f.kind = "folder"}}

\* A draft projection is built of an entry of the delegate, a folder of the
\* delegate as the index folder and an index of the configured root.
Projected(file, index_folder, index) ==
    last' = [Idle EXCEPT !.op = "project", !.pre = delegate,
                         !.val = BaseWEKODraftMetadata(file.kind, self_index_id, file,
                                                       index_folder, index)]

Project ==
    /\ last.op = "none"
    /\ \E file \in DelegateMetadata, index_folder \in DelegateFolders, id \in UnderRoot :
           Projected(file, index_folder, RemoteIndex(id))
    /\ UNCHANGED <<remote, delegate, tasks>>

NextDraft ==
    \/ Upload
    \/ CreateFolder
    \/ Project
    \/ Respond

SpecDraft == Init /\ [][NextDraft]_vars

(* --------------- metadata.py: the extra of a draft projection --------- *)

\* dict.update: the keys of u replace those of r.
dict_update(r, u) ==
    [k \in DOMAIN r \cup DOMAIN u |-> IF k \in DOMAIN u THEN u[k] ELSE r[k]]

\* BaseWEKODraftMetadata.extra.
draft_extra(m) ==
    LET r == [weko |-> "draft",
              index |-> m.index,
              metadata |-> [can_edit |-> TRUE, can_register |-> FALSE],
              source |-> m.source]
    IN  dict_update(r, m.raw.extra)

\* The extra of a delegate's entry is the delegate's own: any keys.
ExtraKeys == {"version", "weko", "index"}

ExtraValues == [version |-> <<"1">>, weko |-> "osfstorage", index |-> <<"9">>]

DelegateExtras == {[k \in keys |-> ExtraValues[k]] : keys \in SUBSET ExtraKeys}

WithExtra(file, x) ==
    [kind |-> file.kind, name |-> file.name, id |-> file.id, path |-> file.path,
     materialized_path |-> file.materialized_path, extra |-> x]

\* _wrap_draft_metadata of an entry the delegate returned, and the extra
\* read from the projection.
ProjectExtra ==
    /\ last.op = "none"
    /\ \E file \in DelegateMetadata, x \in DelegateExtras,
          index_folder \in DelegateFolders, id \in UnderRoot :
           LET m == wrap_draft_metadata(WithExtra(file, x), index_folder, RemoteIndex(id))
           IN  last' = [Idle EXCEPT !.op = "extra", !.pre = delegate,
                                    !.path = RemoteIndex(id).identifier,
                                    !.val = [projection |-> m, extra |-> draft_extra(m)]]
    /\ UNCHANGED <<remote, delegate, tasks>>

NextExtra ==
    \/ Upload
    \/ CreateFolder
    \/ ProjectExtra
    \/ Respond

SpecExtra == Init /\ [][NextExtra]_vars

\* The projection with the stripped path in the place of the delegate's.
Restripped(m) == [m EXCEPT !.raw.materialized_path = draft_relative_path(m).val]

Prefixed(m) == StartsWith(m.raw.materialized_path, m.index_folder.materialized_path)

Remainder(m) == Drop(m.raw.materialized_path, Len(m.index_folder.materialized_path))

\* C22 as stated: stripping is idempotent: deriving the relative path again
\* from the already-stripped materialized path, against the same index
\* folder, matches the prefix and gives the same relative path.
C22_StrippingIdempotent ==
    (last.op = "project" /\ Prefixed(last.val)) =>
        /\ draft_relative_path(Restripped(last.val)).err = NoError
        /\ draft_relative_path(Restripped(last.val)).val = draft_relative_path(last.val).val

\* C22: deriving the relative path of a draft projection whose entry lies
\* under its index folder succeeds and leaves the entry's own materialized
\* path in the projection (the index folder's path followed by the
\* remainder); deriving it again from the already-stripped path, against the
\* same index folder, does not match the prefix and fails with ValueError.
C22_StrippingNotRepeatable ==
    (last.op = "project" /\ Prefixed(last.val)) =>
        /\ draft_relative_path(last.val).err = NoError
        /\ last.val.raw.materialized_path =
               last.val.index_folder.materialized_path \o Remainder(last.val)
        /\ draft_relative_path(Restripped(last.val)).err = ValueError("Unexpected path")

C22_Witness ==
    /\ last.op = "project"
    /\ Prefixed(last.val)
    /\ draft_relative_path(last.val).val = <<"d">>
    /\ ~Prefixed(Restripped(last.val))

\* The relative path is the remainder after the index folder's path, with
\* the '/' a folder's remainder may lack.
RemainderOf(m, r) ==
    IF m.kind = "folder"
    THEN EndsWith(r, SLASH) /\ r \in {Remainder(m), Remainder(m) \o SLASH}
    ELSE r = Remainder(m)

\* C23: a draft projection whose entry's materialized path does not start
\* with the index folder's fails with ValueError when its path or its
\* materialized path is derived, and returns no path; otherwise both are
\* '/', the path of the index and the remainder after the index folder's
\* path, which for a folder ends with '/'.
C23_PrefixOrFail ==
    last.op = "project" =>
        IF ~Prefixed(last.val)
        THEN /\ draft_projected_path(last.val) = [val |-> <<>>, err |-> ValueError("Unexpected path")]
             /\ draft_materialized_path(last.val) =
                    [val |-> <<>>, err |-> ValueError("Unexpected path")]
        ELSE /\ draft_projected_path(last.val).err = NoError
             /\ draft_materialized_path(last.val).err = NoError
             /\ RemainderOf(last.val, draft_relative_path(last.val).val)
             /\ draft_projected_path(last.val).val =
                    SLASH \o last.val.index_path \o draft_relative_path(last.val).val
             /\ draft_materialized_path(last.val).val =
                    SLASH \o last.val.index_materialized_path
                          \o draft_relative_path(last.val).val

\* An entry outside the index folder fails, ...
C23_Witness ==
    /\ last.op = "project"
    /\ ~Prefixed(last.val)
    /\ last.val.index_folder.materialized_path # last.val.raw.materialized_path \o SLASH
    /\ draft_projected_path(last.val).err # NoError

\* ... and a folder returned without the final '/' gets it.
C23_WitnessFolder ==
    /\ last.op = "project"
    /\ Prefixed(last.val)
    /\ last.val.kind = "folder"
    /\ Remainder(last.val) = <<"d">>
    /\ draft_materialized_path(last.val).val = <<"/", "s", "/", "d", "/">>

\* The search calls of a log.
Searches(log) == RemoteOps(log, "search")

\* The items the repository holds for an index, in the order of the search.
HitsOf(index_id) ==
    LET InIndex(it) == it.index = index_id
    IN  SelectSeq(remote.items, InIndex)

FirstPageIds(index_id) ==
    {Page(HitsOf(index_id), DEFAULT_PAGE, DefaultSize)[k].id :
        k \in 1..Len(Page(HitsOf(index_id), DEFAULT_PAGE, DefaultSize))}

\* The index a root or index path lists.
ListedIndex ==
    IF is_root(last.resolved) THEN self_index_id
    ELSE identifier_value(LastPart(last.resolved))

ListedItems ==
    LET IsItem(m) == m.weko = "item"
    IN  SelectSeq(last.val, IsItem)

IndexListed ==
    /\ Served({"metadata"})
    /\ last.err = NoError
    /\ is_root(last.resolved) \/ is_index(last.resolved)

\* C24: every search of get_items asks for page 1 of the default size of one
\* index and is not followed by a search for a further page: the listing of
\* an index issues exactly one search, for the listed index, and its items
\* are the hits of that page, in order; an ordinary segment is resolved to an
\* item only if the item is on that page of the index in force, with at most
\* one search per ordinary segment.
C24_OnePagePerCall ==
    /\ \A k \in 1..Len(Searches(last.vlog \o last.log)) :
           /\ Searches(last.vlog \o last.log)[k].arg.page = DEFAULT_PAGE
           /\ Searches(last.vlog \o last.log)[k].arg.size = DefaultSize
    /\ IndexListed =>
           /\ Searches(last.log) =
                  <<RemoteCall("search", SearchQuery(ListedIndex, DEFAULT_PAGE, DefaultSize))>>
           /\ Len(ListedItems) <= DefaultSize
           /\ [k \in 1..Len(ListedItems) |-> ListedItems[k].item_identifier] =
                  [k \in 1..Len(Page(HitsOf(ListedIndex), DEFAULT_PAGE, DefaultSize)) |->
                      Page(HitsOf(ListedIndex), DEFAULT_PAGE, DefaultSize)[k].id]
    /\ (last.op # "none" /\ last.verr = NoError) =>
           /\ \A k \in 1..Len(last.resolved.parts) :
                  (OrdinaryPart(last.resolved.parts, k) /\ part_is_item(last.resolved.parts[k]))
                      => last.resolved.parts[k].id[2]
                             \in FirstPageIds(IndexBefore(last.resolved.parts, k))
           /\ Len(Searches(last.vlog)) <=
                  Cardinality({k \in 1..Len(last.resolved.parts) :
                                   OrdinaryPart(last.resolved.parts, k)})

\* The listing of an index that holds three items shows the two of page 1.
C24_Witness ==
    /\ IndexListed
    /\ ListedIndex = <<"3">>
    /\ Len(HitsOf(<<"3">>)) > DefaultSize
    /\ Len(ListedItems) = DefaultSize
    /\ Len(Searches(last.log)) = 1

\* The item beyond the page is resolved as a draft name.
C24_WitnessBeyond ==
    /\ last.op = "metadata"
    /\ last.path = <<"/", "s", "/", "j", "/">>
    /\ last.verr = NoError
    /\ is_draft_file(last.resolved)
    /\ \E k \in 1..Len(remote.items) :
           remote.items[k].index = <<"3">> /\ remote.items[k].title = <<"j">>

\* C25: revisions of a resolved path, whatever the path names, whatever the
\* delegate holds and whichever endpoints of the repository answer, succeeds
\* with the empty list, calls neither the repository nor the delegate and
\* leaves the delegate as it was.
C25_RevisionsEmpty ==
    Served({"revisions"}) =>
        /\ last.err = NoError
        /\ last.val = <<>>
        /\ last.log = <<>>
        /\ delegate = last.pre

C25_Witness ==
    /\ Served({"revisions"})
    /\ is_draft_file(last.resolved)
    /\ delegate # {}
    /\ remote.status # AllUp
    /\ last.val = <<>>
    /\ last.log = <<>>

\* The writers attached to the stream of a request, in order.
WritersAttached(log) ==
    LET ToStream(call) == call.to = "stream"
    IN  SelectSeq(log, ToStream)

FourWriters ==
    <<StreamCall("md5"), StreamCall("sha1"), StreamCall("sha256"), StreamCall("sha512")>>

\* C26: an upload attaches the writers md5, sha1, sha256 and sha512, once
\* and in this order, directly before its call of the delegate's upload,
\* which is its last call; an upload that does not reach the delegate's
\* upload (its path does not resolve, is not a draft path, or its index,
\* overlay folder or parent folder is not obtained) attaches no writer, and
\* no other operation attaches one.
C26_WritersBeforeUpload ==
    /\ last.op # "upload" => WritersAttached(last.log) = <<>>
    /\ last.op = "upload" =>
           IF DelegateOps(last.log, {"upload"}) = <<>>
           THEN /\ WritersAttached(last.log) = <<>>
                /\ last.err # NoError
           ELSE /\ Len(DelegateOps(last.log, {"upload"})) = 1
                /\ Len(last.log) >= 5
                /\ last.log[Len(last.log)].to = "delegate"
                /\ last.log[Len(last.log)].op = "upload"
                /\ SubSeq(last.log, Len(last.log) - 4, Len(last.log) - 1) = FourWriters
                /\ WritersAttached(last.log) = FourWriters
    /\ (last.op = "upload" /\ (last.verr # NoError \/ ~is_draft_file(last.resolved))) =>
           last.log = <<>>

\* An upload stored a file: the writers precede the delegate's upload.
C26_Witness ==
    /\ Served({"upload"})
    /\ last.err = NoError
    /\ WritersAttached(last.log) = FourWriters
    /\ last.log[Len(last.log)].op = "upload"

\* An upload whose parent folder is not found attaches no writer.
C26_WitnessFailedParent ==
    /\ ServedDraft({"upload"})
    /\ last.err # NoError
    /\ last.log # <<>>
    /\ WritersAttached(last.log) = <<>>

\* The positions of the draft_file parts of a path.
DraftAt(parts) == {k \in 2..Len(parts) : part_is_draft_file(parts[k])}

FirstDraft(parts) == CHOOSE k \in DraftAt(parts) : \A j \in DraftAt(parts) : k <= j

\* C27: in every path validate_path returns the draft_file parts are a
\* suffix: every part after a draft_file part is a draft_file part, resolved
\* without a search of the repository, and the second path of
\* split_draft_file_path is the root part followed by draft_file parts only.
C27_DraftSuffix ==
    (last.op # "none" /\ last.verr = NoError /\ DraftAt(last.resolved.parts) # {}) =>
        /\ \A k \in FirstDraft(last.resolved.parts)..Len(last.resolved.parts) :
               part_is_draft_file(last.resolved.parts[k])
        /\ \A k \in 2..Len(split_draft_file_path(last.resolved)[2].parts) :
               part_is_draft_file(split_draft_file_path(last.resolved)[2].parts[k])
        /\ Len(Searches(last.vlog)) <=
               Cardinality({k \in 1..FirstDraft(last.resolved.parts) :
                                OrdinaryPart(last.resolved.parts, k)})

\* The projection of the node a resolved path names, built with the
\* configured root from the node's own place in the repository.
NodeProjection(path) ==
    IF is_index(path)
    THEN WEKOIndexMetadata(self_index_id, RemoteIndex(identifier_value(LastPart(path))))
    ELSE IF is_item(path)
    THEN WEKOItemMetadata(self_index_id, RemoteItem(identifier_value(LastPart(path))),
                          RemoteIndex(RemoteItem(identifier_value(LastPart(path))).index))
    ELSE LET item == RemoteItem(identifier_value(path.parts[Len(path.parts) - 1]))
             Named(file) == file.filename = LastPart(path).value
         IN  WEKOFileMetadata(self_index_id, SelectSeq(item.files, Named)[1], item,
                              RemoteIndex(item.index))

RemoteNode(path) == is_index(path) \/ is_item(path) \/ is_item_file(path)

\* C28: the resolver and the projector agree: the display names of a path
\* resolved to an index, an item or an item file are those of the
\* materialized path of the node's projection built with the configured
\* root, the titles from the configured root (exclusive) down to the node.
C28_ResolverAgreesWithProjector ==
    (last.op # "none" /\ last.verr = NoError /\ RemoteNode(last.resolved)) =>
        Split(RStrip(path_materialized_path(last.resolved))) =
            Split(RStrip(NodeProjection(last.resolved).materialized_path))

\* The sub-index 5 of index 3, addressed by its marker alone, is resolved
\* to a path that lacks the title of index 3.
C28_ShortMarkerPath ==
    /\ last.op # "none"
    /\ last.verr = NoError
    /\ last.path = SLASH \o MarkIndex(<<"5">>) \o SLASH
    /\ path_materialized_path(last.resolved) = <<"/", "d", "/">>
    /\ NodeProjection(last.resolved).materialized_path = <<"/", "s", "/", "d", "/">>

RemoteIndexIds == {RemoteIndices[k].identifier : k \in 1..Len(RemoteIndices)}

RemoteItemIds == {remote.items[k].id : k \in 1..Len(remote.items)}

\* The kind and the repository's id a projection of an index or item stands for.
KindAndId(m) ==
    IF m.weko = "index" THEN <<"index", m.index_identifier>>
    ELSE <<"item", m.item_identifier>>

\* C29: the ids of indices and of items stay apart in a path: a resolved
\* segment marker+id of an index of the repository is an index part with
\* that id, a resolved segment marker+'item'+id of an item is an item part
\* with that id, every resolved marker segment is one of the two, and the
\* projected path of a listed index or item resolves to an index, or item,
\* of the same id.
C29_IdSpacesRoundTrip ==
    /\ (last.op # "none" /\ last.verr = NoError) =>
           \A k \in 2..Len(last.resolved.parts) :
               StartsWith(last.resolved.parts[k].value, ITEM_PREFIX) =>
                   /\ \/ /\ last.resolved.parts[k].id[1] = "index"
                         /\ last.resolved.parts[k].value = MarkIndex(last.resolved.parts[k].id[2])
                      \/ /\ last.resolved.parts[k].id[1] = "item"
                         /\ last.resolved.parts[k].value = MarkItem(last.resolved.parts[k].id[2])
                   /\ \A id \in RemoteIndexIds :
                          last.resolved.parts[k].value = MarkIndex(id) =>
                              last.resolved.parts[k].id[1] = "index"
                   /\ \A id \in RemoteItemIds :
                          last.resolved.parts[k].value = MarkItem(id) =>
                              last.resolved.parts[k].id[1] = "item"
    /\ \A m \in RemoteProjections :
           m.weko \in {"index", "item"} =>
               /\ validate_path(m.path).err = NoError
               /\ SubSeq(LastPart(validate_path(m.path).val).id, 1, 2) = KindAndId(m)

\* A listing holds an index and an item, and both paths carry a marker.
C29_Witness ==
    /\ \E m \in RemoteProjections : m.weko = "index" /\ m.path = SLASH \o MarkIndex(<<"3">>) \o SLASH
    /\ \E m \in RemoteProjections : m.weko = "item" /\ m.path = SLASH \o MarkItem(<<"7">>) \o SLASH

\* A marker segment of an index and one of an item are resolved.
C29_WitnessResolved ==
    /\ last.op # "none"
    /\ last.verr = NoError
    /\ last.path = SLASH \o MarkItem(<<"7">>) \o SLASH
    /\ LastPart(last.resolved).id[1] = "item"
    /\ LastPart(last.resolved).id[2] = <<"7">>

\* C30: a marker item segment is resolved within the index in force: the
\* item part of a returned path is an item of the index of the last index
\* part before it, or of the configured index when there is none.
C30_ItemInCurrentIndex ==
    (last.op # "none" /\ last.verr = NoError) =>
        \A k \in 2..Len(last.resolved.parts) :
            (/\ part_is_item(last.resolved.parts[k])
             /\ StartsWith(last.resolved.parts[k].value, ITEM_PREFIX)) =>
                RemoteItem(last.resolved.parts[k].id[2]).index =
                    IndexBefore(last.resolved.parts, k)

\* Item 7 of index 2 is resolved under index 3.
C30_ItemOfAnotherIndex ==
    /\ last.op # "none"
    /\ last.verr = NoError
    /\ last.path = <<"/", "s", "/">> \o MarkItem(<<"7">>) \o SLASH
    /\ last.resolved.parts[2].id = <<"index", <<"3">>, <<"s">>>>
    /\ last.resolved.parts[3].id = <<"item", <<"7">>, <<"i">>>>
    /\ RemoteItem(<<"7">>).index = <<"2">>

ReadOps == {"validate_path", "metadata", "download", "revisions"}

\* C31: validate_path, metadata, download and revisions never change the
\* delegate: they issue no create_folder, upload or delete call and leave
\* its entries as they were; metadata and download of a draft path whose
\* index has no overlay folder fail with the not-found error 'Unexpected
\* path' and do not create the folder.
C31_ReadsLeaveDelegate ==
    last.op \in ReadOps =>
        /\ DelegateOps(last.vlog \o last.log, WriteOps) = <<>>
        /\ delegate = last.pre
        /\ (/\ ServedDraft({"metadata", "download"})
            /\ IndexFolders(last.pre, TargetIndexId(last.resolved)) = {}) =>
               /\ last.err = MetadataError("Unexpected path", 404)
               /\ IndexFolders(delegate, TargetIndexId(last.resolved)) = {}

\* A download of a draft path of index 3 while the delegate holds only the
\* overlay folder of index 2.
C31_Witness ==
    /\ ServedDraft({"download"})
    /\ TargetIndexId(last.resolved) = <<"3">>
    /\ MarkerFolders(last.pre) # {}
    /\ IndexFolders(last.pre, <<"3">>) = {}
    /\ NotFoundError(last.err)
    /\ delegate = last.pre

\* An upload or create_folder on a draft path failed before the call that
\* stores its target: its last call, if any, is not a write of the delegate.
FailedBeforeForward ==
    /\ ServedDraft({"upload", "create_folder"})
    /\ last.err # NoError
    /\ \/ last.log = <<>>
       \/ ~(/\ last.log[Len(last.log)].to = "delegate"
            /\ last.log[Len(last.log)].op \in {"upload", "create_folder"})

\* C32: a failed write leaves the delegate unchanged: an upload or
\* create_folder on a draft path that fails before its forwarded call has
\* issued no create_folder and no upload call, and the delegate holds the
\* entries it held before.
C32_FailedWriteLeavesDelegate ==
    FailedBeforeForward =>
        /\ DelegateOps(last.log, {"create_folder", "upload"}) = <<>>
        /\ delegate = last.pre

\* An upload under a draft folder that does not exist fails with not-found
\* and leaves the marker folder and the index folder it created.
C32_SkeletonLeftBehind ==
    /\ FailedBeforeForward
    /\ last.op = "upload"
    /\ last.pre = {}
    /\ NotFoundError(last.err)
    /\ Len(DelegateOps(last.log, {"create_folder"})) = 2
    /\ Cardinality(delegate) = 2
    /\ IndexFolders(delegate, self_index_id) # {}

\* The marker folder and the folders directly in it.
Skeleton(d) ==
    MarkerFolders(d) \cup {e \in d : \E m \in MarkerFolders(d) : e.parent = m.id}

\* The folder directly in the marker folder that an entry below it is under.
RECURSIVE OverlayFolderOf(_, _)
OverlayFolderOf(d, e) ==
    IF e \in Skeleton(d) \/ e.parent = <<>> THEN e
    ELSE OverlayFolderOf(d, CHOOSE above \in d : above.id = e.parent)

\* The entries directly in the overlay folder of an index.
DraftsOf(d, index_id) ==
    {e \in d : \E f \in IndexFolders(d, index_id) : e.parent = f.id}

ListedDrafts ==
    {last.val[k].raw.id : k \in {j \in 1..Len(last.val) : last.val[j].weko = "draft"}}

\* C33: the draft overlay is partitioned by index: every entry that is not
\* of the skeleton lies under the folder named by the id of one index; an
\* upload or create_folder through a draft path adds entries only to the
\* skeleton and under the folder of the path's last index, where the entry
\* its result stands for lies; the listing of an index shows as drafts
\* exactly the entries directly in the folder of that index, each carrying
\* its id, and none of the folder of another index; and metadata of a draft
\* path that leads to an entry of its index finds it.
C33_OverlayPartitioned ==
    /\ \A e \in delegate \ Skeleton(delegate) :
           \E f \in Skeleton(delegate) \ MarkerFolders(delegate) :
               OverlayFolderOf(delegate, e) = f
    /\ (ServedDraft({"upload", "create_folder"}) /\ last.err = NoError) =>
           /\ \A e \in (delegate \ last.pre) \ Skeleton(delegate) :
                  OverlayFolderOf(delegate, e)
                      \in IndexFolders(delegate, TargetIndexId(last.resolved))
           /\ \E e \in delegate \ Skeleton(delegate) :
                  /\ e.id = (IF last.op = "upload" THEN last.val[1] ELSE last.val).raw.id
                  /\ OverlayFolderOf(delegate, e)
                         \in IndexFolders(delegate, TargetIndexId(last.resolved))
                  /\ e = DraftEntry(delegate, last.resolved)
    /\ IndexListed =>
           /\ ListedDrafts = {e.id : e \in DraftsOf(delegate, ListedIndex)}
           /\ \A k \in 1..Len(last.val) :
                  last.val[k].weko = "draft" => last.val[k].index = ListedIndex
    /\ (ServedDraft({"metadata"}) /\ DraftEntry(last.pre, last.resolved) # None) =>
           last.err = NoError

\* An upload below a draft file stores its file in the root of the delegate,
\* outside the folder of every index.
C33_StoredOutsideOverlay ==
    /\ ServedDraft({"upload"})
    /\ last.err = NoError
    /\ DraftParent(last.pre, last.resolved) \in {e \in last.pre : e.kind = "file"}
    /\ \E e \in delegate \ last.pre :
           /\ e.id = last.val[1].raw.id
           /\ e.parent = <<>>
           /\ e \notin Skeleton(delegate)

(* ------- a path resolved first and used after the repository changed ---- *)

\* Paths to items and to their files, present and absent.
FilePaths ==
    {PathStr(segs, TRUE) : segs \in
        {<<<<"i">>>>, <<MarkItem(<<"7">>)>>, <<<<"s">>, <<"j">>>>, <<<<"s">>, <<"d">>>>}}
    \cup
    {PathStr(segs, FALSE) : segs \in
        {<<item, file>> : item \in {<<"i">>, MarkItem(<<"7">>)},
                          file \in {<<"f">>, <<"g">>, <<"e">>}}
        \cup {<<<<"s">>, item, file>> : item \in {<<"j">>, <<"d">>, MarkItem(<<"8">>)},
                                        file \in {<<"f">>, <<"g">>}}}

ResolveFile == \E p \in FilePaths : Resolve(p)

\* The repository is edited after validate_path has returned the path and
\* before the operation is called with it.
EditBetween ==
    /\ last.op = "validate_path"
    /\ last.verr = NoError
    /\ remote' \in {[r EXCEPT !.status = remote.status] : r \in Remotes} \ {remote}
    /\ UNCHANGED <<delegate, last, tasks>>

\* The operation is called with the path validate_path returned.
Operated(name, r) ==
    /\ last.op = "validate_path"
    /\ last.verr = NoError
    /\ delegate' = r.d
    /\ last' = [last EXCEPT !.op = name, !.pre = delegate, !.err = r.err,
                            !.val = r.val, !.log = r.log]
    /\ UNCHANGED <<remote, tasks>>

MetadataResolved == Operated("metadata", metadata(delegate, last.resolved))

DownloadResolved == Operated("download", download(delegate, last.resolved))

NextStale ==
    \/ ResolveFile
    \/ RemoteChange
    \/ EditBetween
    \/ MetadataResolved
    \/ DownloadResolved
    \/ Respond

SpecStale == Init /\ [][NextStale]_vars

\* The path string without its last segment, as a folder.
ParentPath(path) ==
    PathStr(SubSeq(Split(RStrip(path)), 2, Len(Split(RStrip(path))) - 1), TRUE)

LastSegment(path) == Split(RStrip(path))[Len(Split(RStrip(path)))]

FilesNamed(item_id, name) ==
    LET Named(f) == f.filename = name
    IN  SelectSeq(RemoteItem(item_id).files, Named)

\* The segments before the last lead to an item that holds no file named by
\* the last segment.
NamesMissingFile(path) ==
    /\ Len(Split(RStrip(path))) >= 3
    /\ ~StartsWith(LastSegment(path), ITEM_PREFIX)
    /\ validate_path(ParentPath(path)).err = NoError
    /\ is_item(validate_path(ParentPath(path)).val)
    /\ FilesNamed(identifier_value(LastPart(validate_path(ParentPath(path)).val)),
                  LastSegment(path)) = <<>>

\* The operation ran on an item_file path whose item, as the repository
\* holds it now, has no file of the path's name.
FileGone ==
    /\ last.op \in {"metadata", "download"}
    /\ is_item_file(last.resolved)
    /\ identifier_value(last.resolved.parts[Len(last.resolved.parts) - 1]) \in RemoteItemIds
    /\ FilesNamed(identifier_value(last.resolved.parts[Len(last.resolved.parts) - 1]),
                  identifier_value(LastPart(last.resolved))) = <<>>

\* C34: a missing item file is reported the same way everywhere: when the
\* last segment names no file of the item's freshly fetched file list,
\* validate_path, metadata of an item_file path and download of an item_file
\* path each fail with a not-found error.
C34_MissingFileNotFound ==
    /\ \A p \in FilePaths :
           NamesMissingFile(p) => NotFoundError(validate_path(p).err)
    /\ FileGone => NotFoundError(last.err)

\* The same for validate_path and download alone.
C34_ResolverAndDownload ==
    /\ \A p \in FilePaths :
           NamesMissingFile(p) => NotFoundError(validate_path(p).err)
    /\ (FileGone /\ last.op = "download") => NotFoundError(last.err)

\* metadata of '/i/g', resolved while item 7 held 'g' and called when it no
\* longer does, fails with the structural error 'Illegal parts'.
C34_MetadataIllegalParts ==
    /\ FileGone
    /\ last.op = "metadata"
    /\ last.path = <<"/", "i", "/", "g">>
    /\ last.err = MetadataError("Illegal parts", 400)

\* The predicates of a path that hold.
KindsOf(path) ==
    (IF is_root(path) THEN {"root"} ELSE {})
        \cup (IF is_index(path) THEN {"index"} ELSE {})
        \cup (IF is_item(path) THEN {"item"} ELSE {})
        \cup (IF is_item_file(path) THEN {"item_file"} ELSE {})
        \cup (IF is_draft_file(path) THEN {"draft_file"} ELSE {})

\* C35: of is_root, is_index, is_item, is_item_file and is_draft_file
\* exactly one holds for every path validate_path returns, the one named by
\* the kind of the last part; metadata of the path therefore takes one of
\* its branches and does not fail as 'unsupported'.
C35_ExactlyOneKind ==
    (last.op # "none" /\ last.verr = NoError) =>
        /\ KindsOf(last.resolved) = {LastPart(last.resolved).id[1]}
        /\ metadata(delegate, last.resolved).err # MetadataError("unsupported", 400)

C35_Witness ==
    /\ last.op # "none"
    /\ last.verr = NoError
    /\ Len(last.resolved.parts) = 3
    /\ KindsOf(last.resolved) = {"draft_file"}
    /\ part_is_index(last.resolved.parts[2])

\* The segments of the request's path: path.rstrip('/').split('/').
Segments == Split(RStrip(last.path))

\* C36: validate_path returns one identifier triple per segment of the
\* path, in the order of the segments: as many parts as segments, part k
\* holding segment k and a triple of a kind, the first part of kind root
\* and no other part of kind root.
C36_OneTriplePerSegment ==
    (last.op # "none" /\ last.verr = NoError) =>
        /\ Len(last.resolved.parts) = Len(Segments)
        /\ \A k \in 1..Len(Segments) :
               /\ last.resolved.parts[k].value = Segments[k]
               /\ Len(last.resolved.parts[k].id) = 3
               /\ last.resolved.parts[k].id[1]
                      \in {"root", "index", "item", "item_file", "draft_file"}
               /\ last.resolved.parts[k].id[1] = "root" <=> k = 1
               /\ last.resolved.parts[k].id[1] = "draft_file" =>
                      last.resolved.parts[k].id = <<"draft_file", Segments[k], Segments[k]>>
               /\ last.resolved.parts[k].id[1] = "item_file" =>
                      last.resolved.parts[k].id = <<"item_file", Segments[k], Segments[k]>>

C36_Witness ==
    /\ last.op # "none"
    /\ last.verr = NoError
    /\ Len(Segments) = 4
    /\ last.resolved.parts[2].id[1] = "index"
    /\ last.resolved.parts[3].id[1] = "item"
    /\ last.resolved.parts[4].id[1] = "item_file"

\* C37: split_draft_file_path splits a resolved path at its first draft_file
\* part p after the first part, without loss: the prefix holds the triples
\* of the parts before p, none of them a draft_file, the suffix holds the
\* triple of the first part and those of the parts from p on, and the prefix
\* followed by the suffix without its first part gives the triples of the
\* path; a path without such a part gives (the path, none). split_path gives
\* the parts but the last with their triples and the last part, or (the
\* path, none) for a path of one part.
C37_LosslessSplit ==
    (last.op # "none" /\ last.verr = NoError) =>
        /\ IF DraftAt(last.resolved.parts) = {}
           THEN split_draft_file_path(last.resolved) = <<last.resolved, None>>
           ELSE /\ ids_of(split_draft_file_path(last.resolved)[1].parts) =
                       ids_of(SubSeq(last.resolved.parts, 1,
                                     FirstDraft(last.resolved.parts) - 1))
                /\ DraftAt(split_draft_file_path(last.resolved)[1].parts) = {}
                /\ ids_of(split_draft_file_path(last.resolved)[2].parts) =
                       <<last.resolved.parts[1].id>>
                           \o ids_of(SubSeq(last.resolved.parts,
                                            FirstDraft(last.resolved.parts),
                                            Len(last.resolved.parts)))
                /\ ids_of(split_draft_file_path(last.resolved)[1].parts)
                       \o Tail(ids_of(split_draft_file_path(last.resolved)[2].parts)) =
                       ids_of(last.resolved.parts)
                /\ split_draft_file_path(last.resolved)[2].is_dir = last.resolved.is_dir
        /\ IF Len(last.resolved.parts) = 1
           THEN split_path(last.resolved) = <<last.resolved, None>>
           ELSE /\ ids_of(split_path(last.resolved)[1].parts) =
                       ids_of(SubSeq(last.resolved.parts, 1, Len(last.resolved.parts) - 1))
                /\ split_path(last.resolved)[2] = LastPart(last.resolved)

\* A path of an index and two draft names is split after the index.
C37_Witness ==
    /\ last.op # "none"
    /\ last.verr = NoError
    /\ Len(last.resolved.parts) = 4
    /\ DraftAt(last.resolved.parts) = {3, 4}
    /\ Len(split_draft_file_path(last.resolved)[1].parts) = 2
    /\ Len(split_draft_file_path(last.resolved)[2].parts) = 3

\* C38: every projection built of an entry of the delegate has, in its
\* extra, weko = 'draft' and index = the identifier of the index it was
\* built under, whatever the keys of the entry's own extra.
C38_DiscriminantFixed ==
    last.op = "extra" =>
        /\ last.val.extra.weko = "draft"
        /\ last.val.extra.index = last.path

\* The statement for the entries whose extra has neither of the two keys.
C38_FixedWithoutClash ==
    (last.op = "extra" /\ DOMAIN last.val.projection.raw.extra \cap {"weko", "index"} = {}) =>
        /\ last.val.extra.weko = "draft"
        /\ last.val.extra.index = last.path

\* An entry whose extra has the two keys gives them to the projection.
C38_Overridden ==
    /\ last.op = "extra"
    /\ last.val.projection.raw.extra = ExtraValues
    /\ last.val.projection.index = last.path
    /\ last.val.extra.weko = "osfstorage"
    /\ last.val.extra.index = <<"9">>
    /\ last.val.extra.version = <<"1">>

\* The native paths get_draft_file_metadata asked the metadata of: those
\* after the two of get_index_folder.
DraftListings(log) == SubSeq(ListedPaths(log), 3, Len(ListedPaths(log)))

\* Every metadata call of the log follows the validate_path of its path.
EachAfterItsPath(log) ==
    \A j \in 1..Len(log) :
        (log[j].to = "delegate" /\ log[j].op = "metadata") =>
            /\ j > 1
            /\ log[j - 1] = DelegateCall("validate_path", log[j].arg)

\* The request is a metadata of a directory whose last listing was asked of
\* a folder: its result is a list of projections.
GivesListing ==
    /\ last.op = "metadata"
    /\ last.resolved.is_dir
    /\ DraftListings(last.log) # <<>>
    /\ DResolve(last.pre, DraftListings(last.log)[Len(DraftListings(last.log))]).kind = "folder"

\* C39: the resolution of a draft sub-path of n segments is sequential and
\* ends: the first listing is that of the index folder, the listing of each
\* further level is asked of an entry found, by the name of its segment, in
\* the listing of the level before it, at most n + 1 listings are asked in
\* all, and the operation ends with a result or with an error.
C39_SequentialAndBounded ==
    ServedDraft({"metadata", "download", "delete"}) =>
        /\ Len(DraftListings(last.log)) <= Len(DraftTail(last.resolved)) + 1
        /\ EachAfterItsPath(last.log)
        /\ DraftListings(last.log) # <<>> =>
               DraftListings(last.log)[1] = NativePath(IndexFolder(last.pre, last.resolved))
        /\ \A k \in 2..Len(DraftListings(last.log)) :
               /\ DResolve(last.pre, DraftListings(last.log)[k - 1]) # None
               /\ DResolve(last.pre, DraftListings(last.log)[k]) # None
               /\ DResolve(last.pre, DraftListings(last.log)[k]).parent =
                      DResolve(last.pre, DraftListings(last.log)[k - 1]).id
               /\ DResolve(last.pre, DraftListings(last.log)[k]).name =
                      DraftTail(last.resolved)[k - 1]
        /\ last.err # NoError => last.val = None
        /\ last.err = NoError =>
               IF GivesListing THEN Len(last.val) >= 0 ELSE last.val # None

\* A directory of two segments, both found: three listings.
C39_Witness ==
    /\ ServedDraft({"metadata"})
    /\ last.resolved.is_dir
    /\ Len(DraftTail(last.resolved)) = 2
    /\ Len(DraftListings(last.log)) = 3
    /\ last.err = NoError

====
